---- MODULE Spec2Model ----
(***************************************************************************)
(* The skip-list allocator of codemix/malloc (src/unnamed/part_000): a     *)
(* boundary-tagged arena of 32-bit words whose free blocks form an indexed *)
(* skip list ordered by size.  Every function of the source is an operator *)
(* over a machine record [a, u, err]: a is the int32Array, u the module's  *)
(* UPDATES scratch array, err the message of a thrown error ("" if none).  *)
(***************************************************************************)
EXTENDS Integers, Sequences, FiniteSets, TLC

\* ------------------------------------------------------------ constants
POINTER_SIZE_IN_BYTES == 4
MAX_HEIGHT == 32
HEADER_SIZE_IN_QUADS == 1 + (MAX_HEIGHT * 2)
HEADER_OFFSET_IN_QUADS == 1
HEIGHT_OFFSET_IN_QUADS == 0
NEXT_OFFSET_IN_QUADS == 2
POINTER_SIZE_IN_QUADS == 1
POINTER_OVERHEAD_IN_QUADS == 2
MIN_FREEABLE_SIZE_IN_QUADS == 3
FIRST_BLOCK_OFFSET_IN_QUADS == HEADER_OFFSET_IN_QUADS + HEADER_SIZE_IN_QUADS + POINTER_OVERHEAD_IN_QUADS
MIN_FREEABLE_SIZE_IN_BYTES == MIN_FREEABLE_SIZE_IN_QUADS * POINTER_SIZE_IN_BYTES
FIRST_BLOCK_OFFSET_IN_BYTES == FIRST_BLOCK_OFFSET_IN_QUADS * POINTER_SIZE_IN_BYTES
OVERHEAD_IN_BYTES == (FIRST_BLOCK_OFFSET_IN_QUADS + 1) * POINTER_SIZE_IN_BYTES

\* ------------------------------------------------------------ bounds
\* Quads of the arena beyond the fixed overhead: the size of the initial free block.
PayloadQuads == 16
\* Largest number of consecutive heads the coin of randomHeight shows.
MaxHeads == 2

\* The longest region, in quads, that the constructor is applied to.
MaxRegionQuads == 77

\* The length in bytes of the buffer handed to the constructor.
ArenaBytes == OVERHEAD_IN_BYTES + (PayloadQuads * POINTER_SIZE_IN_BYTES)
\* The word every quad of the fresh buffer holds: the tests fill it with 0x7B bytes.
FillWords == {2071690107}
\* The sizes in bytes the model passes to alloc: 3 and 4 quads.
AllocSizes == {12, 16}

VARIABLES int32Array, UPDATES, outstanding, last, secondInstance

vars == <<int32Array, UPDATES, outstanding, last, secondInstance>>

\* ------------------------------------------------------------ word access
Abs(x) == IF x < 0 THEN -x ELSE x

\* A read of a typed array: outside the array it yields undefined, which every
\* comparison of the source treats as false and every arithmetic use as 0.
Rd(a, i) == IF i \in DOMAIN a THEN a[i] ELSE 0

\* A write to a typed array: outside the array it is dropped.
Wr(a, i, v) == IF i \in DOMAIN a THEN [a EXCEPT ![i] = v] ELSE a

quadsToBytes(num) == num * POINTER_SIZE_IN_BYTES

\* Math.ceil(num / 4)
bytesToQuads(num) == (num + (POINTER_SIZE_IN_BYTES - 1)) \div POINTER_SIZE_IN_BYTES

ArrayLength(a) == Cardinality(DOMAIN a)

\* Mutant of readSize: the tag is returned with its sign.
readSizeSigned(a, block) == Rd(a, block - 1)

readSize(a, block) == Abs(Rd(a, block - 1))

writeFreeBlockSize(a, size, block) == Wr(Wr(a, block - 1, size), block + size, size)

isFree(a, block) ==
  IF block < HEADER_SIZE_IN_QUADS THEN FALSE
  ELSE ~(Rd(a, block - POINTER_SIZE_IN_QUADS) < 0)

\* ------------------------------------------------------------ construction
verifyHeader(a) ==
  /\ Rd(a, HEADER_OFFSET_IN_QUADS - 1) = HEADER_SIZE_IN_QUADS
  /\ Rd(a, HEADER_OFFSET_IN_QUADS + HEADER_SIZE_IN_QUADS) = HEADER_SIZE_IN_QUADS

\* Mutant of writeInitialHeader: the header's upper levels are not written.
writeInitialHeaderOneLevel(a) ==
  LET header == HEADER_OFFSET_IN_QUADS
      headerSize == HEADER_SIZE_IN_QUADS
      block == FIRST_BLOCK_OFFSET_IN_QUADS
      blockSize == ArrayLength(a) - (header + headerSize + POINTER_OVERHEAD_IN_QUADS + POINTER_SIZE_IN_QUADS)
      a1 == writeFreeBlockSize(a, headerSize, header)
      a2 == Wr(a1, header + HEIGHT_OFFSET_IN_QUADS, 1)
      a3 == Wr(a2, header + NEXT_OFFSET_IN_QUADS, block)
      a5 == writeFreeBlockSize(a3, blockSize, block)
      a6 == Wr(a5, block + HEIGHT_OFFSET_IN_QUADS, 1)
  IN  Wr(a6, block + NEXT_OFFSET_IN_QUADS, header)

\* a4 is the loop that points the header's levels 1 .. MAX_HEIGHT - 1 at the header.
writeInitialHeader(a) ==
  LET header == HEADER_OFFSET_IN_QUADS
      headerSize == HEADER_SIZE_IN_QUADS
      block == FIRST_BLOCK_OFFSET_IN_QUADS
      blockSize == ArrayLength(a) - (header + headerSize + POINTER_OVERHEAD_IN_QUADS + POINTER_SIZE_IN_QUADS)
      a1 == writeFreeBlockSize(a, headerSize, header)
      a2 == Wr(a1, header + HEIGHT_OFFSET_IN_QUADS, 1)
      a3 == Wr(a2, header + NEXT_OFFSET_IN_QUADS, block)
      a4 == [i \in DOMAIN a3 |->
               IF i - (header + NEXT_OFFSET_IN_QUADS) \in 1..(MAX_HEIGHT - 1)
               THEN HEADER_OFFSET_IN_QUADS ELSE a3[i]]
      a5 == writeFreeBlockSize(a4, blockSize, block)
      a6 == Wr(a5, block + HEIGHT_OFFSET_IN_QUADS, 1)
  IN  Wr(a6, block + NEXT_OFFSET_IN_QUADS, header)

\* Mutant of prepare: the header is written without being verified first.
prepareAlways(a) == writeInitialHeader(a)

prepare(a) == IF ~verifyHeader(a) THEN writeInitialHeader(a) ELSE a

\* ------------------------------------------------------------ skip list
\* Mutant of findPredecessorsWalk: the size comparison is turned round.
RECURSIVE findPredecessorsWalkGreater(_, _, _, _)
findPredecessorsWalkGreater(a, node, level, minimumSize) ==
  LET next == node + NEXT_OFFSET_IN_QUADS + level
  IN  IF Rd(a, next) >= FIRST_BLOCK_OFFSET_IN_QUADS /\ Rd(a, Rd(a, next) - 1) > minimumSize
      THEN findPredecessorsWalkGreater(a, Rd(a, next), level, minimumSize)
      ELSE node

\* The inner while of findPredecessors at one level: the last node whose
\* successor at that level is the header or is not smaller than minimumSize.
RECURSIVE findPredecessorsWalk(_, _, _, _)
findPredecessorsWalk(a, node, level, minimumSize) ==
  LET next == node + NEXT_OFFSET_IN_QUADS + level
  IN  IF Rd(a, next) >= FIRST_BLOCK_OFFSET_IN_QUADS /\ Rd(a, Rd(a, next) - 1) < minimumSize
      THEN findPredecessorsWalk(a, Rd(a, next), level, minimumSize)
      ELSE node

RECURSIVE findPredecessorsFrom(_, _, _, _, _)
findPredecessorsFrom(a, u, node, height, minimumSize) ==
  IF height > 0
  THEN LET n == findPredecessorsWalk(a, node, height - 1, minimumSize)
       IN  findPredecessorsFrom(a, Wr(u, height - 1, n), n, height - 1, minimumSize)
  ELSE u

\* The UPDATES array after findPredecessors(int32Array, minimumSize).
findPredecessors(a, u, minimumSize) ==
  findPredecessorsFrom(a, u, HEADER_OFFSET_IN_QUADS,
                       Rd(a, HEADER_OFFSET_IN_QUADS + HEIGHT_OFFSET_IN_QUADS), minimumSize)

\* Mutant of findFreeBlockWalk: blocks of exactly the requested size are passed over.
RECURSIVE findFreeBlockWalkPastEqual(_, _, _, _)
findFreeBlockWalkPastEqual(a, block, level, minimumSize) ==
  LET next == Rd(a, block + NEXT_OFFSET_IN_QUADS + level)
  IN  IF next # HEADER_OFFSET_IN_QUADS /\ Rd(a, next - 1) <= minimumSize
      THEN findFreeBlockWalkPastEqual(a, next, level, minimumSize)
      ELSE block

RECURSIVE findFreeBlockWalk(_, _, _, _)
findFreeBlockWalk(a, block, level, minimumSize) ==
  LET next == Rd(a, block + NEXT_OFFSET_IN_QUADS + level)
  IN  IF next # HEADER_OFFSET_IN_QUADS /\ Rd(a, next - 1) < minimumSize
      THEN findFreeBlockWalk(a, next, level, minimumSize)
      ELSE block

\* Mutant of findFreeBlockFrom: the descent stops above level 0.
RECURSIVE findFreeBlockFromAboveZero(_, _, _, _)
findFreeBlockFromAboveZero(a, block, height, minimumSize) ==
  IF height > 1
  THEN findFreeBlockFromAboveZero(a, findFreeBlockWalk(a, block, height - 1, minimumSize),
                                  height - 1, minimumSize)
  ELSE block

RECURSIVE findFreeBlockFrom(_, _, _, _)
findFreeBlockFrom(a, block, height, minimumSize) ==
  IF height > 0
  THEN findFreeBlockFrom(a, findFreeBlockWalk(a, block, height - 1, minimumSize),
                         height - 1, minimumSize)
  ELSE block

\* The offset in quads of the first free block of at least minimumSize, or the header.
findFreeBlock(a, minimumSize) ==
  LET block == findFreeBlockFrom(a, HEADER_OFFSET_IN_QUADS,
                                 Rd(a, HEADER_OFFSET_IN_QUADS + HEIGHT_OFFSET_IN_QUADS), minimumSize)
  IN  Rd(a, block + NEXT_OFFSET_IN_QUADS)

\* Mutant of removeSkip: the walk leaves UPDATES as findPredecessors set it.
RECURSIVE removeSkipKeepsUpdates(_, _, _, _, _)
removeSkipKeepsUpdates(a, u, node, block, blockSize) ==
  IF node # block /\ node # HEADER_OFFSET_IN_QUADS /\ Rd(a, node - 1) <= blockSize
  THEN removeSkipKeepsUpdates(a, u, Rd(a, node + NEXT_OFFSET_IN_QUADS), block, blockSize)
  ELSE [node |-> node, u |-> u]

\* The walk of remove along level 0 over the nodes of the same size that precede
\* block; each node passed becomes the predecessor at the levels where it points
\* to block.  Yields the node the walk stopped at and the UPDATES array.
RECURSIVE removeSkip(_, _, _, _, _)
removeSkip(a, u, node, block, blockSize) ==
  IF node # block /\ node # HEADER_OFFSET_IN_QUADS /\ Rd(a, node - 1) <= blockSize
  THEN LET nodeHeight == Rd(a, node + HEIGHT_OFFSET_IN_QUADS)
           u1 == [i \in DOMAIN u |->
                    IF i <= nodeHeight - 1 /\ Rd(a, node + NEXT_OFFSET_IN_QUADS + i) = block
                    THEN node ELSE u[i]]
       IN  removeSkip(a, u1, Rd(a, node + NEXT_OFFSET_IN_QUADS), block, blockSize)
  ELSE [node |-> node, u |-> u]

\* Mutant of removeUnlink: the loop starts at level 1, level 0 stays linked.
RECURSIVE removeUnlinkAboveZero(_, _, _, _, _)
removeUnlinkAboveZero(a, u, block, height, listHeight) ==
  IF height = 0 THEN removeUnlinkAboveZero(a, u, block, 1, listHeight)
  ELSE IF height < listHeight
  THEN LET slot == Rd(u, height) + NEXT_OFFSET_IN_QUADS + height
       IN  IF Rd(a, slot) # block THEN a
           ELSE removeUnlinkAboveZero(Wr(a, slot, Rd(a, block + NEXT_OFFSET_IN_QUADS + height)),
                                      u, block, height + 1, listHeight)
  ELSE a

\* The unlinking loop of remove, from level height up, stopping at the first
\* level whose predecessor does not point to block.
RECURSIVE removeUnlink(_, _, _, _, _)
removeUnlink(a, u, block, height, listHeight) ==
  IF height < listHeight
  THEN LET slot == Rd(u, height) + NEXT_OFFSET_IN_QUADS + height
       IN  IF Rd(a, slot) # block THEN a
           ELSE removeUnlink(Wr(a, slot, Rd(a, block + NEXT_OFFSET_IN_QUADS + height)),
                             u, block, height + 1, listHeight)
  ELSE a

\* Mutant of removeShrink: the list height is never lowered.
removeShrinkNever(a, listHeight) == a

\* The loop of remove that lowers the list height while the top level is empty.
RECURSIVE removeShrink(_, _)
removeShrink(a, listHeight) ==
  IF listHeight > 0
     /\ Rd(a, HEADER_OFFSET_IN_QUADS + NEXT_OFFSET_IN_QUADS + (listHeight - 1)) = HEADER_OFFSET_IN_QUADS
  THEN removeShrink(Wr(a, HEADER_OFFSET_IN_QUADS + HEIGHT_OFFSET_IN_QUADS, listHeight - 1),
                    listHeight - 1)
  ELSE a

\* Mutant of markAllocated: the foot tag is left as it was.
markAllocatedHeadOnly(a, block, blockSize) == Wr(a, block - 1, -blockSize)

\* The last two writes of remove: the size with its sign inverted, in both tags.
markAllocated(a, block, blockSize) ==
  Wr(Wr(a, block - 1, -blockSize), block + blockSize, -blockSize)

remove(m, block, blockSize) ==
  IF m.err # "" THEN m
  ELSE
    LET u1 == findPredecessors(m.a, m.u, blockSize)
        w == removeSkip(m.a, u1, Rd(m.a, Rd(u1, 0) + NEXT_OFFSET_IN_QUADS), block, blockSize)
    IN  IF w.node # block
        THEN [a |-> m.a, u |-> w.u, err |-> "Could not find block to remove."]
        ELSE
          LET listHeight == Rd(m.a, HEADER_OFFSET_IN_QUADS + HEIGHT_OFFSET_IN_QUADS)
              a1 == removeUnlink(m.a, w.u, block, 0, listHeight)
              a2 == removeShrink(a1, listHeight)
              a3 == markAllocated(a2, block, blockSize)
          IN  [a |-> a3, u |-> w.u, err |-> ""]

\* The loop of randomHeight over the bits of the random integer r.
RECURSIVE randomHeightLoop(_, _)
randomHeightLoop(r, height) ==
  IF r % 2 = 1 /\ height < MAX_HEIGHT
  THEN randomHeightLoop(r \div 2, height + 1)
  ELSE height

\* randomHeight() when Math.ceil(Math.random() * 2147483648) is r.
randomHeight(r) == randomHeightLoop(r, 1)

\* Mutant of generateHeight: the height is not cut down to the block's size.
generateHeightUnclamped(m, block, blockSize, r) ==
  LET listHeight == Rd(m.a, HEADER_OFFSET_IN_QUADS + HEIGHT_OFFSET_IN_QUADS)
      height == randomHeight(r)
  IN  IF height > listHeight
      THEN LET newHeight == listHeight + 1
               a1 == Wr(m.a, HEADER_OFFSET_IN_QUADS + HEIGHT_OFFSET_IN_QUADS, newHeight)
               a2 == Wr(a1, HEADER_OFFSET_IN_QUADS + NEXT_OFFSET_IN_QUADS + (newHeight - 1),
                        HEADER_OFFSET_IN_QUADS)
               u1 == Wr(m.u, newHeight, HEADER_OFFSET_IN_QUADS)
               a3 == Wr(a2, block + HEIGHT_OFFSET_IN_QUADS, newHeight)
           IN  [a |-> a3, u |-> u1, height |-> newHeight]
      ELSE [a |-> Wr(m.a, block + HEIGHT_OFFSET_IN_QUADS, height), u |-> m.u, height |-> height]

\* Mutant of generateHeight: the header's height is left as it was.
generateHeightHeaderKept(m, block, blockSize, r) ==
  LET listHeight == Rd(m.a, HEADER_OFFSET_IN_QUADS + HEIGHT_OFFSET_IN_QUADS)
      sampled == randomHeight(r)
      height == IF blockSize - 1 < sampled + 1 THEN blockSize - 2 ELSE sampled
  IN  IF height > listHeight
      THEN LET newHeight == listHeight + 1
               a2 == Wr(m.a, HEADER_OFFSET_IN_QUADS + NEXT_OFFSET_IN_QUADS + (newHeight - 1),
                        HEADER_OFFSET_IN_QUADS)
               u1 == Wr(m.u, newHeight, HEADER_OFFSET_IN_QUADS)
               a3 == Wr(a2, block + HEIGHT_OFFSET_IN_QUADS, newHeight)
           IN  [a |-> a3, u |-> u1, height |-> newHeight]
      ELSE [a |-> Wr(m.a, block + HEIGHT_OFFSET_IN_QUADS, height), u |-> m.u, height |-> height]

\* generateHeight: the machine after it, and the height it returns.
generateHeight(m, block, blockSize, r) ==
  LET listHeight == Rd(m.a, HEADER_OFFSET_IN_QUADS + HEIGHT_OFFSET_IN_QUADS)
      sampled == randomHeight(r)
      height == IF blockSize - 1 < sampled + 1 THEN blockSize - 2 ELSE sampled
  IN  IF height > listHeight
      THEN LET newHeight == listHeight + 1
               a1 == Wr(m.a, HEADER_OFFSET_IN_QUADS + HEIGHT_OFFSET_IN_QUADS, newHeight)
               a2 == Wr(a1, HEADER_OFFSET_IN_QUADS + NEXT_OFFSET_IN_QUADS + (newHeight - 1),
                        HEADER_OFFSET_IN_QUADS)
               u1 == Wr(m.u, newHeight, HEADER_OFFSET_IN_QUADS)
               a3 == Wr(a2, block + HEIGHT_OFFSET_IN_QUADS, newHeight)
           IN  [a |-> a3, u |-> u1, height |-> newHeight]
      ELSE [a |-> Wr(m.a, block + HEIGHT_OFFSET_IN_QUADS, height), u |-> m.u, height |-> height]

\* Mutant of insertLink: only level 0 is linked.
RECURSIVE insertLinkLevelZero(_, _, _, _, _)
insertLinkLevelZero(a, u, block, height, blockHeight) ==
  IF height <= blockHeight /\ height <= 1
  THEN LET update == Rd(u, height - 1) + NEXT_OFFSET_IN_QUADS + (height - 1)
           a1 == Wr(a, block + NEXT_OFFSET_IN_QUADS + (height - 1), Rd(a, update))
           a2 == Wr(a1, update, block)
       IN  insertLinkLevelZero(a2, Wr(u, height - 1, HEADER_OFFSET_IN_QUADS), block,
                               height + 1, blockHeight)
  ELSE [a |-> a, u |-> u]

\* The linking loop of insert for height .. blockHeight.
RECURSIVE insertLink(_, _, _, _, _)
insertLink(a, u, block, height, blockHeight) ==
  IF height <= blockHeight
  THEN LET update == Rd(u, height - 1) + NEXT_OFFSET_IN_QUADS + (height - 1)
           a1 == Wr(a, block + NEXT_OFFSET_IN_QUADS + (height - 1), Rd(a, update))
           a2 == Wr(a1, update, block)
       IN  insertLink(a2, Wr(u, height - 1, HEADER_OFFSET_IN_QUADS), block, height + 1, blockHeight)
  ELSE [a |-> a, u |-> u]

\* Mutant of insert: the tags are written with the sign of a used block.
insertKeepsUsed(m, block, blockSize, r) ==
  IF m.err # "" THEN m
  ELSE
    LET u1 == findPredecessors(m.a, m.u, blockSize)
        g == generateHeight([a |-> m.a, u |-> u1, err |-> ""], block, blockSize, r)
        l == insertLink(g.a, g.u, block, 1, g.height)
        a1 == Wr(l.a, block - 1, -blockSize)
        a2 == Wr(a1, block + blockSize, -blockSize)
    IN  [a |-> a2, u |-> l.u, err |-> ""]

insert(m, block, blockSize, r) ==
  IF m.err # "" THEN m
  ELSE
    LET u1 == findPredecessors(m.a, m.u, blockSize)
        g == generateHeight([a |-> m.a, u |-> u1, err |-> ""], block, blockSize, r)
        l == insertLink(g.a, g.u, block, 1, g.height)
        a1 == Wr(l.a, block - 1, blockSize)
        a2 == Wr(a1, block + blockSize, blockSize)
    IN  [a |-> a2, u |-> l.u, err |-> ""]

\* Mutant of split: the second block starts on the foot tag of the first.
splitOnFoot(m, block, firstSize, blockSize, r) ==
  LET second == block + firstSize + POINTER_SIZE_IN_QUADS
      secondSize == blockSize - (second - block)
      m1 == remove(m, block, blockSize)
      a1 == Wr(m1.a, block - 1, -firstSize)
      a2 == Wr(a1, block + firstSize, -firstSize)
      a3 == Wr(a2, second - 1, -secondSize)
      a4 == Wr(a3, second + secondSize, -secondSize)
  IN  IF m1.err # "" THEN m1
      ELSE insert([a |-> a4, u |-> m1.u, err |-> ""], second, secondSize, r)

split(m, block, firstSize, blockSize, r) ==
  LET second == block + firstSize + POINTER_OVERHEAD_IN_QUADS
      secondSize == blockSize - (second - block)
      m1 == remove(m, block, blockSize)
      a1 == Wr(m1.a, block - 1, -firstSize)
      a2 == Wr(a1, block + firstSize, -firstSize)
      a3 == Wr(a2, second - 1, -secondSize)
      a4 == Wr(a3, second + secondSize, -secondSize)
  IN  IF m1.err # "" THEN m1
      ELSE insert([a |-> a4, u |-> m1.u, err |-> ""], second, secondSize, r)

\* ------------------------------------------------------------ neighbours
\* Mutant of getFreeBlockBefore: the block before is never reported free.
getFreeBlockBeforeNever(a, block) == 0

getFreeBlockBefore(a, block) ==
  IF block <= FIRST_BLOCK_OFFSET_IN_QUADS THEN 0
  ELSE LET beforeSize == Rd(a, block - POINTER_OVERHEAD_IN_QUADS)
       IN  IF beforeSize < POINTER_OVERHEAD_IN_QUADS THEN 0
           ELSE block - (POINTER_OVERHEAD_IN_QUADS + beforeSize)

\* Mutant of getFreeBlockAfter: the test for the last block is inverted.
getFreeBlockAfterInverted(a, block) ==
  LET blockSize == readSize(a, block)
      next == block + blockSize + POINTER_OVERHEAD_IN_QUADS
      nextSize == Rd(a, next - POINTER_SIZE_IN_QUADS)
  IN  IF block + blockSize + POINTER_OVERHEAD_IN_QUADS < ArrayLength(a) - 2 THEN 0
      ELSE IF nextSize < POINTER_OVERHEAD_IN_QUADS THEN 0
      ELSE next

getFreeBlockAfter(a, block) ==
  LET blockSize == readSize(a, block)
      next == block + blockSize + POINTER_OVERHEAD_IN_QUADS
      nextSize == Rd(a, next - POINTER_SIZE_IN_QUADS)
  IN  IF block + blockSize + POINTER_OVERHEAD_IN_QUADS >= ArrayLength(a) - 2 THEN 0
      ELSE IF nextSize < POINTER_OVERHEAD_IN_QUADS THEN 0
      ELSE next

\* ------------------------------------------------------------ coalescing
\* Mutant of insertBefore: the block is inserted alone, the trailing block stays.
insertBeforeAlone(m, trailing, block, blockSize, r) == insert(m, block, blockSize, r)

insertBefore(m, trailing, block, blockSize, r) ==
  LET trailingSize == readSize(m.a, trailing)
      m1 == remove(m, trailing, trailingSize)
      size == blockSize + trailingSize + POINTER_OVERHEAD_IN_QUADS
      a1 == Wr(m1.a, block - POINTER_SIZE_IN_QUADS, -size)
      a2 == Wr(a1, trailing + trailingSize, -size)
  IN  IF m1.err # "" THEN m1
      ELSE insert([a |-> a2, u |-> m1.u, err |-> ""], block, size, r)

insertMiddle(m, preceding, block, blockSize, trailing, r) ==
  LET precedingSize == readSize(m.a, preceding)
      trailingSize == readSize(m.a, trailing)
      size == (trailing - preceding) + trailingSize
      m1 == remove(m, preceding, precedingSize)
      m2 == remove(m1, trailing, trailingSize)
      a1 == Wr(m2.a, preceding - POINTER_SIZE_IN_QUADS, -size)
      a2 == Wr(a1, trailing + trailingSize, -size)
  IN  IF m2.err # "" THEN m2
      ELSE insert([a |-> a2, u |-> m2.u, err |-> ""], preceding, size, r)

insertAfter(m, preceding, block, blockSize, r) ==
  LET precedingSize == (block - preceding) - POINTER_OVERHEAD_IN_QUADS
      size == (block - preceding) + blockSize
      m1 == remove(m, preceding, precedingSize)
      a1 == Wr(m1.a, preceding - POINTER_SIZE_IN_QUADS, -size)
      a2 == Wr(a1, block + blockSize, -size)
  IN  IF m1.err # "" THEN m1
      ELSE insert([a |-> a2, u |-> m1.u, err |-> ""], preceding, size, r)

\* ------------------------------------------------------------ public methods
\* The outcome of a call: the machine after it, the value returned (0 when it threw).
Outcome(m, ret) == [a |-> m.a, u |-> m.u, err |-> m.err, ret |-> IF m.err = "" THEN ret ELSE 0]

\* Mutant of Thrown: the error is swallowed.
ThrownSwallowed(m, message) == [a |-> m.a, u |-> m.u, err |-> "", ret |-> 0]

Thrown(m, message) == [a |-> m.a, u |-> m.u, err |-> message, ret |-> 0]

\* Mutant of shouldSplit: the two tags of the new block are not counted.
shouldSplitNoOverhead(blockSize, minimumSize) ==
  blockSize - minimumSize >= MIN_FREEABLE_SIZE_IN_QUADS

\* Mutant of noBlockFound: the header itself passes for a block.
noBlockFoundStrict(block) == block < HEADER_OFFSET_IN_QUADS

\* The test of alloc for findFreeBlock having found nothing.
noBlockFound(block) == block <= HEADER_OFFSET_IN_QUADS

\* The test of alloc that decides between split and remove.
shouldSplit(blockSize, minimumSize) ==
  blockSize - (minimumSize + POINTER_OVERHEAD_IN_QUADS) >= MIN_FREEABLE_SIZE_IN_QUADS

\* Allocator.alloc(numberOfBytes) on an allocator of the given length in bytes;
\* r is the random integer randomHeight draws if a block is inserted.
alloc(m, length, numberOfBytes, r) ==
  IF numberOfBytes < MIN_FREEABLE_SIZE_IN_BYTES \/ numberOfBytes > length
  THEN Thrown(m, "RangeError: Allocation size")
  ELSE IF numberOfBytes % POINTER_SIZE_IN_BYTES # 0
  THEN Thrown(m, "RangeError: Allocation size must be a multiple of the pointer size")
  ELSE
    LET minimumSize == bytesToQuads(numberOfBytes)
        block == findFreeBlock(m.a, minimumSize)
        blockSize == readSize(m.a, block)
    IN  IF noBlockFound(block) THEN Outcome(m, 0)
        ELSE IF shouldSplit(blockSize, minimumSize)
        THEN Outcome(split(m, block, minimumSize, blockSize, r), quadsToBytes(block))
        ELSE Outcome(remove(m, block, blockSize), quadsToBytes(block))

\* Mutant of free: the size of the block inserted is returned, not that of
\* the block freed.
freeReturningInserted(m, length, address, r) ==
  IF address < FIRST_BLOCK_OFFSET_IN_BYTES \/ address > length
  THEN Thrown(m, "RangeError: Address")
  ELSE IF address % POINTER_SIZE_IN_BYTES # 0
  THEN Thrown(m, "RangeError: Address must be a multiple of the pointer size")
  ELSE
    LET block == bytesToQuads(address)
        blockSize == readSize(m.a, block)
        preceding == getFreeBlockBefore(m.a, block)
        trailing == getFreeBlockAfter(m.a, block)
        first == IF preceding # 0 THEN preceding ELSE block
        after == IF preceding # 0
                 THEN IF trailing # 0
                      THEN insertMiddle(m, preceding, block, blockSize, trailing, r)
                      ELSE insertAfter(m, preceding, block, blockSize, r)
                 ELSE IF trailing # 0
                 THEN insertBefore(m, trailing, block, blockSize, r)
                 ELSE insert(m, block, blockSize, r)
    IN  IF blockSize < MIN_FREEABLE_SIZE_IN_QUADS
           \/ blockSize > (length - OVERHEAD_IN_BYTES) \div POINTER_SIZE_IN_BYTES
        THEN Thrown(m, "RangeError: Invalid block")
        ELSE Outcome(after, quadsToBytes(readSize(after.a, first)))

\* Allocator.free(address).
free(m, length, address, r) ==
  IF address < FIRST_BLOCK_OFFSET_IN_BYTES \/ address > length
  THEN Thrown(m, "RangeError: Address")
  ELSE IF address % POINTER_SIZE_IN_BYTES # 0
  THEN Thrown(m, "RangeError: Address must be a multiple of the pointer size")
  ELSE
    LET block == bytesToQuads(address)
        blockSize == readSize(m.a, block)
        preceding == getFreeBlockBefore(m.a, block)
        trailing == getFreeBlockAfter(m.a, block)
    IN  IF blockSize < MIN_FREEABLE_SIZE_IN_QUADS
           \/ blockSize > (length - OVERHEAD_IN_BYTES) \div POINTER_SIZE_IN_BYTES
        THEN Thrown(m, "RangeError: Invalid block")
        ELSE IF preceding # 0
        THEN IF trailing # 0
             THEN Outcome(insertMiddle(m, preceding, block, blockSize, trailing, r), quadsToBytes(blockSize))
             ELSE Outcome(insertAfter(m, preceding, block, blockSize, r), quadsToBytes(blockSize))
        ELSE IF trailing # 0
        THEN Outcome(insertBefore(m, trailing, block, blockSize, r), quadsToBytes(blockSize))
        ELSE Outcome(insert(m, block, blockSize, r), quadsToBytes(blockSize))

\* Mutant of sizeOf: the size is not converted to bytes.
sizeOfInQuads(m, length, address) ==
  IF address < FIRST_BLOCK_OFFSET_IN_BYTES \/ address > length
  THEN Thrown(m, "RangeError: Address")
  ELSE IF address % POINTER_SIZE_IN_BYTES # 0
  THEN Thrown(m, "RangeError: Address must be a multiple of the pointer size")
  ELSE Outcome(m, readSize(m.a, bytesToQuads(address)))

\* Allocator.sizeOf(address).
sizeOf(m, length, address) ==
  IF address < FIRST_BLOCK_OFFSET_IN_BYTES \/ address > length
  THEN Thrown(m, "RangeError: Address")
  ELSE IF address % POINTER_SIZE_IN_BYTES # 0
  THEN Thrown(m, "RangeError: Address must be a multiple of the pointer size")
  ELSE Outcome(m, quadsToBytes(readSize(m.a, bytesToQuads(address))))

\* ------------------------------------------------------------ arguments
\* A JavaScript value passed as an argument: an integer num, the number
\* num + 1/2, NaN, Infinity, -Infinity, or a value that is not of type number.
Integer(num) == [kind |-> "integer", num |-> num]
Fraction(num) == [kind |-> "fraction", num |-> num]
NotANumber == [kind |-> "NaN", num |-> 0]
PlusInfinity == [kind |-> "Infinity", num |-> 0]
MinusInfinity == [kind |-> "-Infinity", num |-> 0]
NotOfTypeNumber == [kind |-> "undefined", num |-> 0]

\* Mutant of allocAny: every value is taken for its integer part.
allocAnyTruncated(m, length, value, r) == alloc(m, length, value.num, r)

\* Allocator.alloc(value) for any value: the two tests of alloc as JavaScript
\* evaluates them.  A comparison with NaN or undefined is false and the test
\* typeof !== 'number' || isNaN throws for them; Infinity is greater than the
\* length and -Infinity less than the minimum; num + 1/2 passes or fails the
\* range test as num does at the lower end and as num + 1 does at the upper,
\* and is never a multiple of the pointer size.
allocAny(m, length, value, r) ==
  CASE value.kind = "integer" -> alloc(m, length, value.num, r)
    [] value.kind = "fraction" ->
         IF value.num < MIN_FREEABLE_SIZE_IN_BYTES \/ value.num >= length
         THEN Thrown(m, "RangeError: Allocation size")
         ELSE Thrown(m, "RangeError: Allocation size must be a multiple of the pointer size")
    [] OTHER -> Thrown(m, "RangeError: Allocation size")

\* The contracts free(address) meets before its first write once the address
\* has passed the two range tests: the pre: and post: of readSize, the pre: of
\* getFreeBlockBefore and getFreeBlockAfter on the block, and the pre: of
\* insert when the block has no free neighbour.  A build that compiles the
\* contracts in raises an Error where one of them is false; a build that
\* strips them runs on.
freeContractsMet(a, length, address) ==
  LET block == bytesToQuads(address)
      blockSize == readSize(a, block)
      rejected == \/ address < FIRST_BLOCK_OFFSET_IN_BYTES
                  \/ address > length
                  \/ address % POINTER_SIZE_IN_BYTES # 0
      invalid == \/ blockSize < MIN_FREEABLE_SIZE_IN_QUADS
                 \/ blockSize > (length - OVERHEAD_IN_BYTES) \div POINTER_SIZE_IN_BYTES
  IN  \/ rejected
      \/ /\ block >= 1
         /\ block < ArrayLength(a)
         /\ blockSize > 0
         /\ blockSize <= ArrayLength(a)
         /\ Rd(a, block - 1) = Rd(a, block + blockSize)
         /\ \/ invalid
            \/ getFreeBlockBefore(a, block) # 0
            \/ getFreeBlockAfter(a, block) # 0
            \/ /\ blockSize >= MIN_FREEABLE_SIZE_IN_QUADS
               /\ block + blockSize <= ArrayLength(a)
               /\ ~isFree(a, block)

\* The outcomes of free(address) over the builds: that of the code as written
\* and, where a contract on its way is false, the Error of the contract.
freeOutcomes(m, length, address, r) ==
  {free(m, length, address, r)}
    \cup (IF freeContractsMet(m.a, length, address) THEN {}
          ELSE {Thrown(m, "Error: Function precondition failed")})

\* The contracts of readSize, which sizeOf(address) calls once the address has
\* passed the two range tests.
sizeOfContractsMet(a, length, address) ==
  LET block == bytesToQuads(address)
      blockSize == readSize(a, block)
      rejected == \/ address < FIRST_BLOCK_OFFSET_IN_BYTES
                  \/ address > length
                  \/ address % POINTER_SIZE_IN_BYTES # 0
  IN  \/ rejected
      \/ /\ block >= 1
         /\ block < ArrayLength(a)
         /\ blockSize > 0
         /\ blockSize <= ArrayLength(a)
         /\ Rd(a, block - 1) = Rd(a, block + blockSize)

\* The outcomes of sizeOf(address) over the builds.
sizeOfOutcomes(m, length, address) ==
  {sizeOf(m, length, address)}
    \cup (IF sizeOfContractsMet(m.a, length, address) THEN {}
          ELSE {Thrown(m, "Error: Function precondition failed")})

\* Mutant of readListNode: the offset is left in quads.
readListNodeInQuads(a, block) ==
  LET height == Rd(a, block + HEIGHT_OFFSET_IN_QUADS)
  IN  [type |-> "free",
       offset |-> block,
       height |-> height,
       pointers |-> [i \in 1..height |-> quadsToBytes(Rd(a, block + NEXT_OFFSET_IN_QUADS + i - 1))],
       size |-> quadsToBytes(Rd(a, block - 1))]

\* readListNode(int32Array, block).
readListNode(a, block) ==
  LET height == Rd(a, block + HEIGHT_OFFSET_IN_QUADS)
  IN  [type |-> "free",
       offset |-> quadsToBytes(block),
       height |-> height,
       pointers |-> [i \in 1..height |-> quadsToBytes(Rd(a, block + NEXT_OFFSET_IN_QUADS + i - 1))],
       size |-> quadsToBytes(Rd(a, block - 1))]

\* The contracts of readSize at a block.
readSizeContractsMet(a, block) ==
  /\ block >= 1
  /\ block < ArrayLength(a)
  /\ readSize(a, block) > 0
  /\ readSize(a, block) <= ArrayLength(a)
  /\ Rd(a, block - 1) = Rd(a, block + readSize(a, block))

\* The contract of readListNode at a block.
readListNodeContractsMet(a, block) ==
  block + MIN_FREEABLE_SIZE_IN_QUADS < ArrayLength(a)

\* The loop of inspect from a block on: the entries pushed, and the error
\* that ended the loop, if any. contracts tells whether the build keeps the
\* pre: and post: blocks.
RECURSIVE inspectFrom(_, _, _)
inspectFrom(a, block, contracts) ==
  IF ~(block < ArrayLength(a) - POINTER_SIZE_IN_QUADS)
  THEN [err |-> "", blocks |-> <<>>]
  ELSE LET size == readSize(a, block)
       IN  IF contracts /\ ~readSizeContractsMet(a, block)
           THEN [err |-> "Error: Function precondition failed", blocks |-> <<>>]
           ELSE IF size < POINTER_OVERHEAD_IN_QUADS \/ size >= ArrayLength(a)
           THEN [err |-> "Error: Got invalid sized chunk", blocks |-> <<>>]
           ELSE IF isFree(a, block) /\ contracts /\ ~readListNodeContractsMet(a, block)
           THEN [err |-> "Error: Function precondition failed", blocks |-> <<>>]
           ELSE LET entry == IF isFree(a, block)
                             THEN readListNode(a, block)
                             ELSE [type |-> "used",
                                   offset |-> quadsToBytes(block),
                                   size |-> quadsToBytes(size)]
                    rest == inspectFrom(a, block + size + POINTER_OVERHEAD_IN_QUADS, contracts)
                IN  [err |-> rest.err,
                     blocks |-> IF rest.err = "" THEN <<entry>> \o rest.blocks ELSE <<>>]

\* inspect(int32Array).
inspect(a, contracts) ==
  LET walk == inspectFrom(a, FIRST_BLOCK_OFFSET_IN_QUADS, contracts)
  IN  IF contracts /\ ~readListNodeContractsMet(a, HEADER_OFFSET_IN_QUADS)
      THEN [err |-> "Error: Function precondition failed", header |-> <<>>, blocks |-> <<>>]
      ELSE [err |-> walk.err,
            header |-> IF walk.err = "" THEN readListNode(a, HEADER_OFFSET_IN_QUADS) ELSE <<>>,
            blocks |-> walk.blocks]

\* The pre: and assert: blocks of isFree at a block.
isFreeContractsMet(a, block) ==
  LET size == Rd(a, block - POINTER_SIZE_IN_QUADS)
  IN  /\ block < ArrayLength(a)
      /\ \/ block < HEADER_SIZE_IN_QUADS
         \/ /\ size # 0
            /\ Abs(size) >= MIN_FREEABLE_SIZE_IN_QUADS
            /\ Abs(size) < ArrayLength(a)
            /\ Rd(a, block + Abs(size)) = size

\* checkUsedBlockIntegrity: the message thrown, or "" when it returns true.
checkUsedBlockIntegrity(a, block, blockSize) ==
  IF Rd(a, block - 1) # Rd(a, block + blockSize)
  THEN "Error: Block length header does not match footer"
  ELSE ""

\* checkFreeBlockIntegrity: the message thrown, or "" when it returns true.
checkFreeBlockIntegrity(a, block, blockSize, contracts) ==
  LET height == Rd(a, block + HEIGHT_OFFSET_IN_QUADS)
      pointer(i) == Rd(a, block + NEXT_OFFSET_IN_QUADS + i)
      stops == {i \in 0..(height - 1) :
                  /\ pointer(i) >= FIRST_BLOCK_OFFSET_IN_QUADS
                  /\ \/ contracts /\ ~isFreeContractsMet(a, pointer(i))
                     \/ ~isFree(a, pointer(i))}
      first == CHOOSE i \in stops : \A j \in stops : i <= j
  IN  IF Rd(a, block - 1) # Rd(a, block + blockSize)
      THEN "Error: Block length header does not match footer"
      ELSE IF height < 1 \/ height > MAX_HEIGHT
      THEN "Error: Block height must be between 1 and MAX_HEIGHT"
      ELSE IF stops = {} THEN ""
      ELSE IF contracts /\ ~isFreeContractsMet(a, pointer(first))
      THEN "Error: Function precondition failed"
      ELSE "Error: Block has a pointer to a non-free block"

\* The loop of checkListIntegrity from a block on: the message thrown, or ""
\* when it returns true.
RECURSIVE checkListIntegrityFrom(_, _, _)
checkListIntegrityFrom(a, block, contracts) ==
  IF ~(block < ArrayLength(a) - POINTER_SIZE_IN_QUADS) THEN ""
  ELSE LET size == readSize(a, block)
           checked == IF isFree(a, block)
                      THEN checkFreeBlockIntegrity(a, block, size, contracts)
                      ELSE checkUsedBlockIntegrity(a, block, size)
       IN  IF contracts /\ ~readSizeContractsMet(a, block)
           THEN "Error: Function precondition failed"
           ELSE IF \/ size < POINTER_OVERHEAD_IN_QUADS
                   \/ size >= ArrayLength(a) - FIRST_BLOCK_OFFSET_IN_QUADS
           THEN "Error: Got invalid sized chunk"
           ELSE IF contracts /\ ~isFreeContractsMet(a, block)
           THEN "Error: Function precondition failed"
           ELSE IF checked # "" THEN checked
           ELSE checkListIntegrityFrom(a, block + size + POINTER_OVERHEAD_IN_QUADS, contracts)

\* checkListIntegrity(int32Array).
checkListIntegrity(a, contracts) ==
  checkListIntegrityFrom(a, FIRST_BLOCK_OFFSET_IN_QUADS, contracts)

\* The pre: and post: blocks of writeFreeBlockSize.
writeFreeBlockSizeContractsMet(a, size, block) ==
  /\ block >= 1
  /\ size # 0
  /\ Rd(writeFreeBlockSize(a, size, block), block - 1) = size
  /\ Rd(writeFreeBlockSize(a, size, block), block + size) = size

\* The words writeInitialHeader has written when it comes to the first block.
writeInitialHeaderList(a) ==
  LET header == HEADER_OFFSET_IN_QUADS
      a1 == writeFreeBlockSize(a, HEADER_SIZE_IN_QUADS, header)
      a2 == Wr(a1, header + HEIGHT_OFFSET_IN_QUADS, 1)
      a3 == Wr(a2, header + NEXT_OFFSET_IN_QUADS, FIRST_BLOCK_OFFSET_IN_QUADS)
  IN  [i \in DOMAIN a3 |->
         IF i - (header + NEXT_OFFSET_IN_QUADS) \in 1..(MAX_HEIGHT - 1)
         THEN HEADER_OFFSET_IN_QUADS ELSE a3[i]]

\* new Allocator(buffer) over a buffer whose words are a: the array the
\* instance holds and the message thrown, or "" when the constructor returns.
Allocator(a, contracts) ==
  LET blockSize == ArrayLength(a) - (FIRST_BLOCK_OFFSET_IN_QUADS + POINTER_SIZE_IN_QUADS)
  IN  IF contracts /\ quadsToBytes(ArrayLength(a)) < OVERHEAD_IN_BYTES
      THEN [a |-> a, err |-> "Error: Assertion failed"]
      ELSE IF /\ contracts
              /\ ~verifyHeader(a)
              /\ ~writeFreeBlockSizeContractsMet(writeInitialHeaderList(a), blockSize,
                                                 FIRST_BLOCK_OFFSET_IN_QUADS)
      THEN [a |-> writeInitialHeaderList(a), err |-> "Error: Function precondition failed"]
      ELSE [a |-> prepare(a), err |-> checkListIntegrity(prepare(a), contracts)]

\* ------------------------------------------------------------ state machine
\* The fresh buffer of ArenaBytes bytes, every word holding the fill pattern.
FreshArena(fill) == [i \in 0..(bytesToQuads(ArenaBytes) - 1) |-> fill]

\* The module-level UPDATES array: MAX_HEIGHT words, all the header offset.
FreshUpdates == [i \in 0..(MAX_HEIGHT - 1) |-> HEADER_OFFSET_IN_QUADS]

\* The random integers randomHeight may draw: k heads then a tail.
RandomDraws == {(2 ^ k) - 1 : k \in 0..MaxHeads}

Machine == [a |-> int32Array, u |-> UPDATES, err |-> ""]

\* The process holds one instance only.
NoSecond == [int32Array |-> <<>>, outstanding |-> {}, alone |-> <<>>, aloneSecond |-> <<>>]

Init ==
  /\ \E fill \in FillWords : int32Array = prepare(FreshArena(fill))
  /\ UPDATES = FreshUpdates
  /\ outstanding = {}
  /\ last = [op |-> "new", arg |-> ArenaBytes, ret |-> 0, err |-> ""]
  /\ secondInstance = NoSecond

\* A call alloc(n) with a valid size.
Alloc ==
  \E n \in AllocSizes, r \in RandomDraws :
    LET o == alloc(Machine, ArenaBytes, n, r)
    IN  /\ int32Array' = o.a
        /\ UPDATES' = o.u
        /\ outstanding' = IF o.err = "" /\ o.ret # 0 THEN outstanding \cup {o.ret} ELSE outstanding
        /\ UNCHANGED secondInstance
        /\ last' = [op |-> "alloc", arg |-> n, ret |-> o.ret, err |-> o.err]

\* A call free(addr) of an address alloc returned that was not freed since.
Free ==
  \E addr \in outstanding, r \in RandomDraws :
    LET o == free(Machine, ArenaBytes, addr, r)
    IN  /\ int32Array' = o.a
        /\ UPDATES' = o.u
        /\ outstanding' = IF o.err = "" THEN outstanding \ {addr} ELSE outstanding
        /\ UNCHANGED secondInstance
        /\ last' = [op |-> "free", arg |-> addr, ret |-> o.ret, err |-> o.err]

Next == Alloc \/ Free

Spec == Init /\ [][Next]_vars

\* ------------------------------------------------------------ inspection
\* The walk of checkListIntegrity and inspect: the blocks met from block on,
\* stepping by the size of each plus its two tags.
RECURSIVE blocksFrom(_, _)
blocksFrom(a, block) ==
  IF block < ArrayLength(a) - POINTER_SIZE_IN_QUADS
  THEN <<block>> \o blocksFrom(a, block + readSize(a, block) + POINTER_OVERHEAD_IN_QUADS)
  ELSE <<>>

Tiling == blocksFrom(int32Array, FIRST_BLOCK_OFFSET_IN_QUADS)

Range(s) == {s[i] : i \in DOMAIN s}

\* The blocks of the tiling whose head tag is positive.
FreeBlocksOf(a) == {b \in Range(blocksFrom(a, FIRST_BLOCK_OFFSET_IN_QUADS)) : Rd(a, b - 1) > 0}

\* The nodes met by following NEXT[level] from node until the header, at most
\* fuel of them.
RECURSIVE chainFrom(_, _, _, _)
chainFrom(a, node, level, fuel) ==
  IF node = HEADER_OFFSET_IN_QUADS \/ fuel = 0 THEN <<>>
  ELSE <<node>> \o chainFrom(a, Rd(a, node + NEXT_OFFSET_IN_QUADS + level), level, fuel - 1)

\* The chain of the list at a level, cut after as many nodes as the arena has words.
Chain(level) ==
  chainFrom(int32Array, Rd(int32Array, HEADER_OFFSET_IN_QUADS + NEXT_OFFSET_IN_QUADS + level),
            level, ArrayLength(int32Array))

ListHeight == Rd(int32Array, HEADER_OFFSET_IN_QUADS + HEIGHT_OFFSET_IN_QUADS)

NoDuplicates(s) == \A i, j \in DOMAIN s : s[i] = s[j] => i = j

\* s is a subsequence of t: the elements of s occur in t in the same order.
RECURSIVE IsSubsequence(_, _)
IsSubsequence(s, t) ==
  IF s = <<>> THEN TRUE
  ELSE IF t = <<>> THEN FALSE
  ELSE IF Head(s) = Head(t) THEN IsSubsequence(Tail(s), Tail(t))
  ELSE IsSubsequence(s, Tail(t))

\* ------------------------------------------------------------ calls with any argument
\* The values the model passes to alloc: the valid sizes, sizes below the
\* minimum, above the length and off the pointer size, and values that are not
\* finite integers.
AllocArguments ==
  {Integer(n) : n \in AllocSizes \cup {-4, 0, 8, 14, ArenaBytes + 2, ArenaBytes + 4}}
    \cup {Fraction(8), Fraction(16), Fraction(ArenaBytes), NotANumber, PlusInfinity,
          MinusInfinity, NotOfTypeNumber}

\* The addresses the model passes to free besides those alloc returned:
\* negative, inside the header, off the pointer size, beyond the length.
StrayAddresses ==
  {-4, 0, 16, FIRST_BLOCK_OFFSET_IN_BYTES - 4, FIRST_BLOCK_OFFSET_IN_BYTES + 1,
   ArenaBytes + 2, ArenaBytes + 4}

\* The addresses inside the arena, multiples of the pointer size, that start
\* no block of the tiling.
InteriorAddresses ==
  {quadsToBytes(q) : q \in (FIRST_BLOCK_OFFSET_IN_QUADS..(ArrayLength(int32Array) - 1)) \ Range(Tiling)}

\* The addresses of the blocks that are free in the arena.
FreeAddresses == {quadsToBytes(b) : b \in FreeBlocksOf(int32Array)}

\* A run is followed up to its first call that is not a valid one: the calls
\* so far were valid sizes that raised nothing and outstanding addresses.
Intact == IF last.op = "new" THEN TRUE ELSE last.valid

\* A call alloc(value) with any value.
AllocAny ==
  /\ Intact
  /\ \E value \in AllocArguments, r \in RandomDraws :
       LET o == allocAny(Machine, ArenaBytes, value, r)
       IN  /\ int32Array' = o.a
           /\ UPDATES' = o.u
           /\ outstanding' = IF o.err = "" /\ o.ret # 0 THEN outstanding \cup {o.ret} ELSE outstanding
           /\ UNCHANGED secondInstance
           /\ last' = [op |-> "alloc", arg |-> value, ret |-> o.ret, err |-> o.err,
                        valid |-> o.err = ""]

\* A call free(address) with an outstanding address, a stray one, the length
\* of the arena, the address of a free block, or an address inside a block.
FreeAny ==
  /\ Intact
  /\ \E address \in outstanding \cup StrayAddresses \cup {ArenaBytes} \cup FreeAddresses
                        \cup InteriorAddresses,
        r \in RandomDraws :
       \E o \in freeOutcomes(Machine, ArenaBytes, address, r) :
         /\ int32Array' = o.a
         /\ UPDATES' = o.u
         /\ outstanding' = IF o.err = "" THEN outstanding \ {address} ELSE outstanding
         /\ UNCHANGED secondInstance
         /\ last' = [op |-> "free", arg |-> address, ret |-> o.ret, err |-> o.err,
                      valid |-> address \in outstanding]

\* The word can be multiplied by the pointer size within the integers of the
\* model checker.
Representable(word) == Abs(word) <= 2147483647 \div POINTER_SIZE_IN_BYTES

\* The addresses the model passes to sizeOf: the stray ones, the length of the
\* arena, and every multiple of the pointer size inside the arena whose
\* preceding word is representable.
SizeOfAddresses ==
  StrayAddresses
    \cup {quadsToBytes(q) : q \in {b \in FIRST_BLOCK_OFFSET_IN_QUADS..ArrayLength(int32Array) :
                                      Representable(Rd(int32Array, b - 1))}}

\* A call sizeOf(address).
SizeOfAny ==
  /\ Intact
  /\ \E address \in SizeOfAddresses :
       \E o \in sizeOfOutcomes(Machine, ArenaBytes, address) :
         /\ int32Array' = o.a
         /\ UPDATES' = o.u
         /\ UNCHANGED <<outstanding, secondInstance>>
         /\ last' = [op |-> "sizeOf", arg |-> address, ret |-> o.ret, err |-> o.err,
                      valid |-> FALSE]

\* A call inspect().
InspectAny ==
  /\ Intact
  /\ \E contracts \in BOOLEAN :
       LET o == inspect(int32Array, contracts)
       IN  /\ UNCHANGED <<int32Array, UPDATES, outstanding, secondInstance>>
           /\ last' = [op |-> "inspect", arg |-> 0, ret |-> o, err |-> o.err, valid |-> FALSE]

\* new Allocator(buffer) over the buffer of the instance.
NewAny ==
  /\ Intact
  /\ \E contracts \in BOOLEAN :
       LET o == Allocator(int32Array, contracts)
       IN  /\ int32Array' = o.a
           /\ UNCHANGED <<UPDATES, outstanding, secondInstance>>
           /\ last' = [op |-> "adopt", arg |-> ArenaBytes, ret |-> 0, err |-> o.err, valid |-> FALSE]

NextAny == AllocAny \/ FreeAny \/ SizeOfAny \/ InspectAny \/ NewAny

AnyCallSpec == Init /\ [][NextAny]_vars

\* ------------------------------------------------------------ construction over any region
\* The lengths, in quads, of the regions: from OVERHEAD_IN_BYTES up to
\* MaxRegionQuads.
RegionQuads == bytesToQuads(OVERHEAD_IN_BYTES)..MaxRegionQuads

\* The length in bytes of the region the instance was built over.
RegionBytes == quadsToBytes(ArrayLength(int32Array))

\* The words a stray write stores.
StrayWords == {-3, 0, 1, 3, FIRST_BLOCK_OFFSET_IN_QUADS, FIRST_BLOCK_OFFSET_IN_QUADS + 5}

\* The words a stray write hits: the header's height and NEXT[0], and every
\* word from the head tag of the first block on.
StrayIndexes ==
  {HEADER_OFFSET_IN_QUADS + HEIGHT_OFFSET_IN_QUADS, HEADER_OFFSET_IN_QUADS + NEXT_OFFSET_IN_QUADS}
    \cup ((FIRST_BLOCK_OFFSET_IN_QUADS - 1)..(ArrayLength(int32Array) - 1))

\* A buffer of any of the lengths, zeroed or holding the fill pattern.
InitRegion ==
  /\ \E quads \in RegionQuads, fill \in FillWords \cup {0} :
       int32Array = [i \in 0..(quads - 1) |-> fill]
  /\ UPDATES = FreshUpdates
  /\ outstanding = {}
  /\ last = [op |-> "buffer", arg |-> 0, ret |-> 0, err |-> "", fresh |-> FALSE, contracts |-> FALSE]
  /\ secondInstance = NoSecond

\* new Allocator(buffer) over the fresh buffer.
Construct ==
  /\ last.op = "buffer"
  /\ \E contracts \in BOOLEAN :
       LET o == Allocator(int32Array, contracts)
       IN  /\ int32Array' = o.a
           /\ UNCHANGED <<UPDATES, outstanding, secondInstance>>
           /\ last' = [op |-> "new", arg |-> RegionBytes, ret |-> 0, err |-> o.err,
                        fresh |-> ~verifyHeader(int32Array), contracts |-> contracts]

\* The instance exists and every link word of its first block is a word of
\* the array.
Usable ==
  /\ last.op \in {"new", "alloc", "free"}
  /\ last.err = ""
  /\ readListNodeContractsMet(int32Array, FIRST_BLOCK_OFFSET_IN_QUADS)

\* A call alloc(n) with a valid size on the instance.
AllocIn ==
  /\ Usable
  /\ \E n \in AllocSizes, r \in RandomDraws :
       LET o == alloc(Machine, RegionBytes, n, r)
       IN  /\ int32Array' = o.a
           /\ UPDATES' = o.u
           /\ outstanding' = IF o.err = "" /\ o.ret # 0 THEN outstanding \cup {o.ret} ELSE outstanding
           /\ UNCHANGED secondInstance
           /\ last' = [op |-> "alloc", arg |-> n, ret |-> o.ret, err |-> o.err, fresh |-> FALSE, contracts |-> FALSE]

\* A call free(addr) of an address alloc returned that was not freed since.
FreeIn ==
  /\ Usable
  /\ \E addr \in outstanding, r \in RandomDraws :
       LET o == free(Machine, RegionBytes, addr, r)
       IN  /\ int32Array' = o.a
           /\ UPDATES' = o.u
           /\ outstanding' = IF o.err = "" THEN outstanding \ {addr} ELSE outstanding
           /\ UNCHANGED secondInstance
           /\ last' = [op |-> "free", arg |-> addr, ret |-> o.ret, err |-> o.err, fresh |-> FALSE, contracts |-> FALSE]

\* A write of one word into the region by something other than the instance.
StrayWrite ==
  /\ Usable
  /\ \E i \in StrayIndexes, word \in StrayWords :
       /\ int32Array[i] # word
       /\ int32Array' = Wr(int32Array, i, word)
       /\ UNCHANGED <<UPDATES, outstanding, secondInstance>>
       /\ last' = [op |-> "write", arg |-> i, ret |-> word, err |-> "", fresh |-> FALSE, contracts |-> FALSE]

\* new Allocator(buffer) over the region after the stray write.
Adopt ==
  /\ last.op = "write"
  /\ \E contracts \in BOOLEAN :
       LET o == Allocator(int32Array, contracts)
       IN  /\ int32Array' = o.a
           /\ UNCHANGED <<UPDATES, outstanding, secondInstance>>
           /\ last' = [op |-> "adopt", arg |-> RegionBytes, ret |-> 0, err |-> o.err,
                        fresh |-> ~verifyHeader(int32Array), contracts |-> contracts]

NextRegion == Construct \/ AllocIn \/ FreeIn \/ StrayWrite \/ Adopt

ConstructSpec == InitRegion /\ [][NextRegion]_vars

\* ------------------------------------------------------------ two instances in one process
\* The lengths in quads of the regions of the first and the second instance.
FirstQuads == 83

SecondQuads == 72

\* The arena invariants of an array: the blocks tile it with agreeing tags
\* and sizes of at least MIN_FREEABLE_SIZE_IN_QUADS, no two adjacent blocks
\* are free, the level-0 chain holds exactly the free blocks, each once and
\* sorted by size, and each higher level below the header height is a
\* subsequence of level 0 holding the free blocks that are tall enough.
SoundArena(a) ==
  LET tiling == blocksFrom(a, FIRST_BLOCK_OFFSET_IN_QUADS)
      chain(level) == chainFrom(a, Rd(a, HEADER_OFFSET_IN_QUADS + NEXT_OFFSET_IN_QUADS + level),
                                level, ArrayLength(a))
  IN  /\ Len(tiling) >= 1
      /\ \A i \in DOMAIN tiling :
           /\ readSize(a, tiling[i]) >= MIN_FREEABLE_SIZE_IN_QUADS
           /\ tiling[i] + readSize(a, tiling[i]) \in DOMAIN a
           /\ a[tiling[i] - 1] = a[tiling[i] + readSize(a, tiling[i])]
      /\ tiling[Len(tiling)] + readSize(a, tiling[Len(tiling)]) = ArrayLength(a) - 1
      /\ \A i \in DOMAIN tiling :
           i + 1 \in DOMAIN tiling => ~(a[tiling[i] - 1] > 0 /\ a[tiling[i + 1] - 1] > 0)
      /\ NoDuplicates(chain(0))
      /\ Range(chain(0)) = FreeBlocksOf(a)
      /\ \A i \in DOMAIN chain(0) :
           i + 1 \in DOMAIN chain(0) => readSize(a, chain(0)[i]) <= readSize(a, chain(0)[i + 1])
      /\ \A i \in 1..(MAX_HEIGHT - 1) :
           i < Rd(a, HEADER_OFFSET_IN_QUADS + HEIGHT_OFFSET_IN_QUADS) =>
             /\ IsSubsequence(chain(i), chain(0))
             /\ Range(chain(i)) = {b \in FreeBlocksOf(a) : Rd(a, b + HEIGHT_OFFSET_IN_QUADS) > i}

\* The array, the outstanding addresses and the scratch of an isolated run of
\* instance 1 or 2.
ArenaOf(instance) == IF instance = 1 THEN int32Array ELSE secondInstance.int32Array

OutstandingOf(instance) == IF instance = 1 THEN outstanding ELSE secondInstance.outstanding

AloneOf(instance) == IF instance = 1 THEN secondInstance.alone ELSE secondInstance.aloneSecond

\* Two instances over two buffers, and the one UPDATES array of the module.
\* alone and aloneSecond are the UPDATES array each instance would have were
\* it the only instance of the process.
InitTwo ==
  /\ \E fill \in FillWords :
       /\ int32Array = prepare([i \in 0..(FirstQuads - 1) |-> fill])
       /\ secondInstance = [int32Array |-> prepare([i \in 0..(SecondQuads - 1) |-> fill]),
                             outstanding |-> {},
                             alone |-> FreshUpdates,
                             aloneSecond |-> FreshUpdates]
  /\ UPDATES = FreshUpdates
  /\ outstanding = {}
  /\ last = [op |-> "new", instance |-> 0, arg |-> 0, ret |-> 0, err |-> "", alone |-> TRUE,
              sound |-> TRUE]

\* Every call so far returned, did what it does alone, and left its arena
\* sound.
Undisturbed ==
  /\ last.alone
  /\ last.err = ""
  /\ last.sound

\* The state after a call of an instance whose outcome is o, and whose
\* outcome in the isolated run is alone.
Called(instance, op, arg, o, alone, held) ==
  /\ UPDATES' = o.u
  /\ int32Array' = IF instance = 1 THEN o.a ELSE int32Array
  /\ outstanding' = IF instance = 1 THEN held ELSE outstanding
  /\ secondInstance' =
       [int32Array |-> IF instance = 2 THEN o.a ELSE secondInstance.int32Array,
        outstanding |-> IF instance = 2 THEN held ELSE secondInstance.outstanding,
        alone |-> IF instance = 1 THEN alone.u ELSE secondInstance.alone,
        aloneSecond |-> IF instance = 2 THEN alone.u ELSE secondInstance.aloneSecond]
  /\ last' = [op |-> op, instance |-> instance, arg |-> arg, ret |-> o.ret, err |-> o.err,
               alone |-> o.a = alone.a /\ o.ret = alone.ret /\ o.err = alone.err,
               sound |-> SoundArena(o.a)]

\* A call alloc(n) with a valid size on either instance.
AllocOf ==
  /\ Undisturbed
  /\ \E instance \in {1, 2}, n \in AllocSizes, r \in RandomDraws :
       LET a == ArenaOf(instance)
           length == quadsToBytes(ArrayLength(a))
           o == alloc([a |-> a, u |-> UPDATES, err |-> ""], length, n, r)
           alone == alloc([a |-> a, u |-> AloneOf(instance), err |-> ""], length, n, r)
       IN  Called(instance, "alloc", n, o, alone,
                  IF o.err = "" /\ o.ret # 0 THEN OutstandingOf(instance) \cup {o.ret}
                  ELSE OutstandingOf(instance))

\* A call free(addr), on either instance, of an address its alloc returned
\* that was not freed since.
FreeOf ==
  /\ Undisturbed
  /\ \E instance \in {1, 2}, r \in RandomDraws :
       \E addr \in OutstandingOf(instance) :
         LET a == ArenaOf(instance)
             length == quadsToBytes(ArrayLength(a))
             o == free([a |-> a, u |-> UPDATES, err |-> ""], length, addr, r)
             alone == free([a |-> a, u |-> AloneOf(instance), err |-> ""], length, addr, r)
         IN  Called(instance, "free", addr, o, alone,
                    IF o.err = "" THEN OutstandingOf(instance) \ {addr}
                    ELSE OutstandingOf(instance))

NextTwo == AllocOf \/ FreeOf

TwoInstanceSpec == InitTwo /\ [][NextTwo]_vars

\* ------------------------------------------------------------ exhausting an arena
\* The length in bytes of the buffer of the test 'Alloc() exhaustively'.
ExhaustBytes == 4096

\* The size in bytes that test passes to alloc.
ExhaustSize == 16

\* The random integer drawn in the call after calls calls: the two draws of
\* the pattern, in turn.
PatternDraw(pattern, calls) == pattern[(calls % 2) + 1]

\* An instance over a fresh buffer of ExhaustBytes bytes. The heights sampled
\* during the run follow a pattern of two draws chosen here.
InitExhaust ==
  /\ \E fill \in FillWords :
       int32Array = prepare([i \in 0..(bytesToQuads(ExhaustBytes) - 1) |-> fill])
  /\ UPDATES = FreshUpdates
  /\ outstanding = {}
  /\ secondInstance = NoSecond
  /\ \E pattern \in RandomDraws \X RandomDraws :
       last = [op |-> "new", arg |-> ExhaustBytes, ret |-> 0, err |-> "", addresses |-> <<>>,
               pattern |-> pattern, calls |-> 0, counter |-> 0]

\* The loop of the test: alloc(16) until it returns 0.
ExhaustAlloc ==
  /\ last.op = "new" \/ (last.op = "alloc" /\ last.ret # 0 /\ last.err = "")
  /\ LET o == alloc(Machine, ExhaustBytes, ExhaustSize, PatternDraw(last.pattern, last.calls))
         returned == o.err = "" /\ o.ret # 0
     IN  /\ int32Array' = o.a
         /\ UPDATES' = o.u
         /\ outstanding' = IF returned THEN outstanding \cup {o.ret} ELSE outstanding
         /\ UNCHANGED secondInstance
         /\ last' = [last EXCEPT !.op = "alloc", !.arg = ExhaustSize, !.ret = o.ret, !.err = o.err,
                                  !.addresses = IF returned THEN Append(@, o.ret) ELSE @,
                                  !.calls = @ + 1,
                                  !.counter = IF returned THEN @ + 1 ELSE @]

\* The second loop of the test: free the addresses in reverse order.
ExhaustFree ==
  /\ (last.op = "alloc" /\ last.ret = 0) \/ last.op = "free"
  /\ last.err = ""
  /\ last.addresses # <<>>
  /\ LET address == last.addresses[Len(last.addresses)]
         o == free(Machine, ExhaustBytes, address, PatternDraw(last.pattern, last.calls))
     IN  /\ int32Array' = o.a
         /\ UPDATES' = o.u
         /\ outstanding' = IF o.err = "" THEN outstanding \ {address} ELSE outstanding
         /\ UNCHANGED secondInstance
         /\ last' = [last EXCEPT !.op = "free", !.arg = address, !.ret = o.ret, !.err = o.err,
                                  !.addresses = SubSeq(@, 1, Len(@) - 1),
                                  !.calls = @ + 1]

NextExhaust == ExhaustAlloc \/ ExhaustFree

ExhaustSpec == InitExhaust /\ [][NextExhaust]_vars

\* ------------------------------------------------------------ allocations in a row
\* The length in quads of the region of the instance that only allocates.
SequentialQuads == 110

\* The sum of the first k requests, each with the 8 bytes of its two tags.
RECURSIVE SumWithTags(_, _)
SumWithTags(sizes, k) ==
  IF k = 0 THEN 0
  ELSE SumWithTags(sizes, k - 1) + sizes[k] + quadsToBytes(POINTER_OVERHEAD_IN_QUADS)

\* An instance over a fresh buffer of SequentialQuads quads.
InitSequential ==
  /\ \E fill \in FillWords : int32Array = prepare([i \in 0..(SequentialQuads - 1) |-> fill])
  /\ UPDATES = FreshUpdates
  /\ outstanding = {}
  /\ secondInstance = NoSecond
  /\ last = [op |-> "new", arg |-> 0, ret |-> 0, err |-> "", sizes |-> <<>>, addresses |-> <<>>,
              splits |-> TRUE]

\* A call alloc(n) after nothing but allocs that each split a block; splits
\* tells whether this one left a remainder that was inserted as a free block.
SequentialAlloc ==
  /\ last.splits
  /\ last.err = ""
  /\ \E n \in AllocSizes, r \in RandomDraws :
       LET o == alloc(Machine, RegionBytes, n, r)
           block == findFreeBlock(int32Array, bytesToQuads(n))
       IN  /\ int32Array' = o.a
           /\ UPDATES' = o.u
           /\ outstanding' = IF o.err = "" /\ o.ret # 0 THEN outstanding \cup {o.ret} ELSE outstanding
           /\ UNCHANGED secondInstance
           /\ last' = [op |-> "alloc", arg |-> n, ret |-> o.ret, err |-> o.err,
                        sizes |-> Append(last.sizes, n),
                        addresses |-> Append(last.addresses, o.ret),
                        splits |-> /\ ~noBlockFound(block)
                                   /\ shouldSplit(readSize(int32Array, block), bytesToQuads(n))]

SequentialSpec == InitSequential /\ [][SequentialAlloc]_vars

\* ------------------------------------------------------------ claims

\* C1: after construction and after every valid alloc or free, every block of
\* the tiling has its head tag (word B-1) equal to its foot tag (word
\* B+|head tag|), and that foot tag is a word of the arena.
TagAgreement ==
  \A i \in DOMAIN Tiling :
    LET B == Tiling[i]
    IN  /\ B + readSize(int32Array, B) \in DOMAIN int32Array
        /\ int32Array[B - 1] = int32Array[B + readSize(int32Array, B)]

\* C1 witness: a free has merged a block with a free neighbour while other
\* blocks stay allocated.
TagAgreementWitness ==
  /\ last.op = "free"
  /\ Len(Tiling) >= 2
  /\ \E b \in FreeBlocksOf(int32Array) : readSize(int32Array, b) > 8
  /\ outstanding # {}

\* C2: the walk from FIRST_BLOCK_OFFSET_IN_QUADS visits only blocks of at least
\* MIN_FREEABLE_SIZE_IN_QUADS quads, and the foot tag of the last block visited
\* is the last word of the arena.
TilingExact ==
  /\ Len(Tiling) >= 1
  /\ \A i \in DOMAIN Tiling : readSize(int32Array, Tiling[i]) >= MIN_FREEABLE_SIZE_IN_QUADS
  /\ LET B == Tiling[Len(Tiling)]
     IN  B + readSize(int32Array, B) = ArrayLength(int32Array) - 1

\* C2 witness: an alloc has split a block and the arena holds three blocks.
TilingExactWitness ==
  /\ last.op = "alloc"
  /\ last.ret # 0
  /\ Len(Tiling) = 3
  /\ FreeBlocksOf(int32Array) # {}

\* C3: no two blocks adjacent in the tiling are both free.
NoAdjacentFree ==
  \A i \in DOMAIN Tiling :
    i + 1 \in DOMAIN Tiling =>
      ~(int32Array[Tiling[i] - 1] > 0 /\ int32Array[Tiling[i + 1] - 1] > 0)

\* C3 witness: a free between two free neighbours has left a single block.
NoAdjacentFreeWitness ==
  /\ last.op = "free"
  /\ Len(Tiling) = 1
  /\ last.arg > FIRST_BLOCK_OFFSET_IN_BYTES
  /\ last.arg + last.ret + quadsToBytes(POINTER_SIZE_IN_QUADS) < quadsToBytes(ArrayLength(int32Array))

\* C4: the blocks met along NEXT[0] from the header back to the header are
\* exactly the blocks of the tiling with a positive head tag, each met once.
FreelistConsistency ==
  /\ NoDuplicates(Chain(0))
  /\ Range(Chain(0)) = FreeBlocksOf(int32Array)

\* C4 witness: two free blocks are linked while a block is allocated.
FreelistConsistencyWitness ==
  /\ Len(Chain(0)) = 2
  /\ outstanding # {}

\* C5: the sizes of the free blocks met along NEXT[0] are non-decreasing.
SkipListSorted ==
  \A i \in DOMAIN Chain(0) :
    i + 1 \in DOMAIN Chain(0) =>
      readSize(int32Array, Chain(0)[i]) <= readSize(int32Array, Chain(0)[i + 1])

\* C5 witness: a free has linked its block behind a smaller free block.
SkipListSortedWitness ==
  /\ last.op = "free"
  /\ Len(Chain(0)) = 2
  /\ Chain(0)[2] = bytesToQuads(last.arg)
  /\ readSize(int32Array, Chain(0)[1]) < readSize(int32Array, Chain(0)[2])

\* C6: for each level i >= 1 below the header height, the chain along
\* NEXT[i] is a subsequence of the chain along NEXT[0] and holds exactly the
\* free blocks whose stored height is greater than i.
LevelSubset ==
  \A i \in 1..(MAX_HEIGHT - 1) :
    i < ListHeight =>
      /\ IsSubsequence(Chain(i), Chain(0))
      /\ Range(Chain(i)) =
           {b \in FreeBlocksOf(int32Array) : Rd(int32Array, b + HEIGHT_OFFSET_IN_QUADS) > i}

\* C6 witness: two free blocks, one linked at level 1 and one not.
LevelSubsetWitness ==
  /\ ListHeight >= 2
  /\ Len(Chain(0)) = 2
  /\ Len(Chain(1)) = 1

\* The words of the block at B: its head tag, its payload and its foot tag.
BlockWords(a, B) == (B - 1)..(B + readSize(a, B))

\* The words of the header block, with the word before it.
HeaderWords == 0..(HEADER_OFFSET_IN_QUADS + HEADER_SIZE_IN_QUADS)

\* The blocks alloc returned that were not freed since: pairwise disjoint, and
\* disjoint from the header block.
LiveBlocksDisjoint ==
  \A x \in outstanding :
    /\ BlockWords(int32Array, bytesToQuads(x)) \cap HeaderWords = {}
    /\ \A y \in outstanding \ {x} :
         BlockWords(int32Array, bytesToQuads(x)) \cap BlockWords(int32Array, bytesToQuads(y)) = {}

\* C7: a block alloc returned and that is not yet freed keeps its head tag, its
\* foot tag and every payload word across every later alloc and every free of
\* another address; the outstanding blocks are pairwise disjoint and disjoint
\* from the header block.
LiveBlocksStable ==
  [][/\ LiveBlocksDisjoint'
     /\ \A x \in outstanding \cap outstanding' :
          \A i \in BlockWords(int32Array, bytesToQuads(x)) :
            Rd(int32Array', i) = Rd(int32Array, i)]_vars

\* C7 witness: a free has run while two other blocks were outstanding.
LiveBlocksStableWitness ==
  /\ last.op = "free"
  /\ last.err = ""
  /\ Cardinality(outstanding) >= 2

\* The free blocks of the arena a that can hold minimumSize quads.
FitBlocks(a, minimumSize) == {b \in FreeBlocksOf(a) : readSize(a, b) >= minimumSize}

\* C8: the block a successful alloc(n) returns was, when alloc was called, a free
\* block of the tiling of the smallest size among those of at least n/4 quads.
BestFit ==
  [][(last'.op = "alloc" /\ last'.ret # 0) =>
       LET B == bytesToQuads(last'.ret)
           fits == FitBlocks(int32Array, bytesToQuads(last'.arg))
       IN  /\ B \in fits
           /\ \A f \in fits : readSize(int32Array, B) <= readSize(int32Array, f)]_vars

\* C8 witness: alloc has taken a block that lies behind a free block too small
\* for the request.
BestFitWitness ==
  /\ last.op = "alloc"
  /\ last.ret # 0
  /\ \E f \in FreeBlocksOf(int32Array) :
       /\ f < bytesToQuads(last.ret)
       /\ readSize(int32Array, f) < bytesToQuads(last.arg)

AllocResultRange ==
  last.op = "alloc" =>
    \/ last.ret = 0
    \/ /\ last.ret % POINTER_SIZE_IN_BYTES = 0
       /\ last.ret >= FIRST_BLOCK_OFFSET_IN_BYTES
       /\ BlockWords(int32Array, bytesToQuads(last.ret)) \subseteq DOMAIN int32Array
       /\ BlockWords(int32Array, bytesToQuads(last.ret)) \cap HeaderWords = {}

\* C10 witness: alloc has returned the block that ends at the last word of the arena.
AllocResultRangeWitness ==
  /\ last.op = "alloc"
  /\ last.ret > FIRST_BLOCK_OFFSET_IN_BYTES
  /\ bytesToQuads(last.ret) + readSize(int32Array, bytesToQuads(last.ret)) = ArrayLength(int32Array) - 1

\* C11: when alloc(n), M = n/4, takes a free block B of size S: if
\* S - (M + 2) >= 3, B becomes used with size M and a free block of size
\* S - M - 2 starts at B + M + 2; otherwise B becomes used with size S.  So
\* sizeOf(alloc(n)) lies between n and n + 16, and is n after a split.
SplitPolicy ==
  [][(last'.op = "alloc" /\ last'.ret # 0) =>
       LET B == bytesToQuads(last'.ret)
           M == bytesToQuads(last'.arg)
           S == readSize(int32Array, B)
           size == sizeOf([a |-> int32Array', u |-> UPDATES', err |-> ""], ArenaBytes, last'.ret).ret
       IN  /\ IF S - (M + 2) >= 3
              THEN /\ Rd(int32Array', B - 1) = -M
                   /\ Rd(int32Array', B + M) = -M
                   /\ B + M + 2 \in FreeBlocksOf(int32Array')
                   /\ Rd(int32Array', B + M + 1) = S - M - 2
                   /\ Rd(int32Array', B + S) = S - M - 2
                   /\ size = last'.arg
              ELSE /\ Rd(int32Array', B - 1) = -S
                   /\ Rd(int32Array', B + S) = -S
                   /\ size = quadsToBytes(S)
           /\ last'.arg <= size
           /\ size <= last'.arg + 16]_vars

\* C11 witness: alloc has taken whole a block larger than the request.
SplitPolicyWitness ==
  /\ last.op = "alloc"
  /\ last.ret # 0
  /\ quadsToBytes(readSize(int32Array, bytesToQuads(last.ret))) > last.arg

\* The blocks of the arena a: offset, size and free/used status of each block
\* of the tiling.
BlocksOf(a) ==
  {[offset |-> b, size |-> readSize(a, b), free |-> Rd(a, b - 1) > 0] :
     b \in Range(blocksFrom(a, FIRST_BLOCK_OFFSET_IN_QUADS))}

\* C12: after free(B) of a used block of size S, the arena holds one free block
\* that starts at the left neighbour L if L was free and at B otherwise, of size
\* S plus size(L) + 2 if L was free plus size(R) + 2 if the right neighbour R
\* was free; every other block keeps its offset, size and status.
CoalesceOnFree ==
  [][(last'.op = "free" /\ last'.err = "") =>
       LET B == bytesToQuads(last'.arg)
           S == readSize(int32Array, B)
           i == CHOOSE k \in DOMAIN Tiling : Tiling[k] = B
           leftFree == i > 1 /\ Rd(int32Array, Tiling[i - 1] - 1) > 0
           rightFree == i < Len(Tiling) /\ Rd(int32Array, Tiling[i + 1] - 1) > 0
           start == IF leftFree THEN Tiling[i - 1] ELSE B
           size == S + (IF leftFree THEN readSize(int32Array, Tiling[i - 1]) + 2 ELSE 0)
                     + (IF rightFree THEN readSize(int32Array, Tiling[i + 1]) + 2 ELSE 0)
           gone == {B} \cup (IF leftFree THEN {Tiling[i - 1]} ELSE {})
                       \cup (IF rightFree THEN {Tiling[i + 1]} ELSE {})
       IN  /\ B \in Range(Tiling)
           /\ Rd(int32Array, B - 1) < 0
           /\ BlocksOf(int32Array') =
                {b \in BlocksOf(int32Array) : b.offset \notin gone}
                  \cup {[offset |-> start, size |-> size, free |-> TRUE]}]_vars

\* C12 witness: a free has joined its block to the free block before it while
\* the block after it stays allocated.
CoalesceOnFreeWitness ==
  /\ last.op = "free"
  /\ last.err = ""
  /\ \E f \in FreeBlocksOf(int32Array) :
       /\ f < bytesToQuads(last.arg)
       /\ f + readSize(int32Array, f) = bytesToQuads(last.arg) + bytesToQuads(last.ret)
       /\ f + readSize(int32Array, f) + POINTER_OVERHEAD_IN_QUADS \in Range(Tiling)

\* C13: free(addr) of an outstanding block returns, without raising, the size
\* in bytes the block had before the call, the value sizeOf(addr) gave then,
\* whether or not the block was joined to a free neighbour.
FreeReturnsOwnSize ==
  [][last'.op = "free" =>
       /\ last'.err = ""
       /\ last'.ret = sizeOf(Machine, ArenaBytes, last'.arg).ret
       /\ last'.ret = quadsToBytes(readSize(int32Array, bytesToQuads(last'.arg)))]_vars

\* C13 witness: a free has returned less than the size of the free block its
\* address now starts, having absorbed the free block after it.
FreeReturnsOwnSizeWitness ==
  /\ last.op = "free"
  /\ last.err = ""
  /\ bytesToQuads(last.arg) \in FreeBlocksOf(int32Array)
  /\ last.ret < quadsToBytes(readSize(int32Array, bytesToQuads(last.arg)))

\* C14: from a fresh arena, whenever every address alloc returned has been
\* freed, the tiling is one block, free, at FIRST_BLOCK_OFFSET_IN_QUADS, of the
\* size of the initial free block: the arena's length in quads less 69.
CleanArena ==
  outstanding = {} =>
    /\ Tiling = <<FIRST_BLOCK_OFFSET_IN_QUADS>>
    /\ Rd(int32Array, FIRST_BLOCK_OFFSET_IN_QUADS - 1) = ArrayLength(int32Array) - 69
    /\ Rd(int32Array, ArrayLength(int32Array) - 1) = ArrayLength(int32Array) - 69

\* C14 witness: the last outstanding block, one that ends the arena and does
\* not start it, has been freed.
CleanArenaWitness ==
  /\ last.op = "free"
  /\ last.err = ""
  /\ outstanding = {}
  /\ last.arg > FIRST_BLOCK_OFFSET_IN_BYTES
  /\ last.arg + last.ret + quadsToBytes(POINTER_SIZE_IN_QUADS) = quadsToBytes(ArrayLength(int32Array))

\* The outcomes of free(address) in the state after the step, one for each
\* height randomHeight may draw.
FreeNext(address) ==
  {free([a |-> int32Array', u |-> UPDATES', err |-> ""], ArenaBytes, address, r) : r \in RandomDraws}

\* C15: in any reachable state, for every valid n for which alloc(n) succeeds,
\* alloc(n) followed at once by free of the address returned leaves the offset,
\* size and free/used status of every block of the tiling as before the alloc.
RoundTripTiling ==
  [][(last'.op = "alloc" /\ last'.ret # 0) =>
       \A f \in FreeNext(last'.ret) :
         /\ f.err = ""
         /\ BlocksOf(f.a) = BlocksOf(int32Array)]_vars

\* C15 witness: alloc has split a block while another block is allocated, and
\* the address it returned is not yet freed.
RoundTripTilingWitness ==
  /\ last.op = "alloc"
  /\ last.ret \in outstanding
  /\ Cardinality(outstanding) >= 2
  /\ quadsToBytes(readSize(int32Array, bytesToQuads(last.ret))) = last.arg
  /\ getFreeBlockAfter(int32Array, bytesToQuads(last.ret)) # 0

\* C16 as stated: free applied to the address alloc(n) returned gives back
\* exactly n bytes.
RoundTripReturnsRequest ==
  [][(last'.op = "alloc" /\ last'.ret # 0) =>
       \A f \in FreeNext(last'.ret) : f.err = "" /\ f.ret = last'.arg]_vars

\* C16, amended: free applied to the address alloc(n) returned gives back the
\* size of the block alloc took, the value sizeOf of that address has between
\* the two calls: n when alloc split the block (its size S had
\* S - (n/4 + 2) >= 3), and 4S, at most n + 16, when it took the block whole.
RoundTripReturnsBlockSize ==
  [][(last'.op = "alloc" /\ last'.ret # 0) =>
       LET M == bytesToQuads(last'.arg)
           S == readSize(int32Array, bytesToQuads(last'.ret))
       IN  \A f \in FreeNext(last'.ret) :
             /\ f.err = ""
             /\ f.ret = sizeOf([a |-> int32Array', u |-> UPDATES', err |-> ""], ArenaBytes, last'.ret).ret
             /\ f.ret = IF S - (M + 2) >= 3 THEN last'.arg ELSE quadsToBytes(S)
             /\ last'.arg <= f.ret
             /\ f.ret <= last'.arg + 16]_vars

\* C16 witness: alloc has returned a block larger than was asked for, which
\* the next free will give back whole.
RoundTripReturnsBlockSizeWitness ==
  /\ last.op = "alloc"
  /\ last.ret \in outstanding
  /\ sizeOf(Machine, ArenaBytes, last.ret).ret > last.arg

\* The messages of the RangeErrors alloc and free raise.
RangeErrors ==
  {"RangeError: Allocation size",
   "RangeError: Allocation size must be a multiple of the pointer size",
   "RangeError: Address",
   "RangeError: Address must be a multiple of the pointer size",
   "RangeError: Invalid block"}

\* The value is below MIN_FREEABLE_SIZE_IN_BYTES, above the arena's length in
\* bytes, not a multiple of 4, or not a finite integer.
InvalidSize(value) ==
  IF value.kind # "integer" THEN TRUE
  ELSE IF value.num < MIN_FREEABLE_SIZE_IN_BYTES \/ value.num > ArenaBytes THEN TRUE
  ELSE value.num % 4 # 0

\* C17: alloc(n) raises a RangeError and changes no word of the arena whenever
\* n is below MIN_FREEABLE_SIZE_IN_BYTES, above the arena's length in bytes,
\* not a multiple of 4, or not a finite integer.
AllocArgumentErrors ==
  [][(last'.op = "alloc" /\ InvalidSize(last'.arg)) =>
       /\ last'.err \in RangeErrors
       /\ last'.ret = 0
       /\ int32Array' = int32Array]_vars

\* C17 witness: alloc has refused 16 + 1/2 bytes while a free block that holds
\* 16 bytes exists beside an allocated block.
AllocArgumentErrorsWitness ==
  /\ last.op = "alloc"
  /\ last.arg = Fraction(16)
  /\ last.err \in RangeErrors
  /\ outstanding # {}
  /\ FitBlocks(int32Array, bytesToQuads(16)) # {}

\* The address is negative, inside the header, not a multiple of 4, or above
\* the arena's length in bytes.
InvalidAddress(address) ==
  IF address < FIRST_BLOCK_OFFSET_IN_BYTES \/ address > ArenaBytes THEN TRUE
  ELSE address % 4 # 0

\* C18: free(addr) raises a RangeError and changes no word of the arena
\* whenever addr is negative, below FIRST_BLOCK_OFFSET_IN_BYTES, not a
\* multiple of 4, or above the arena's length in bytes.
FreeArgumentErrors ==
  [][(last'.op = "free" /\ InvalidAddress(last'.arg)) =>
       /\ last'.err \in RangeErrors
       /\ last'.ret = 0
       /\ int32Array' = int32Array]_vars

\* C18 witness: free has refused an address one byte past the start of an
\* allocated block.
FreeArgumentErrorsWitness ==
  /\ last.op = "free"
  /\ last.arg = FIRST_BLOCK_OFFSET_IN_BYTES + 1
  /\ last.err \in RangeErrors
  /\ FIRST_BLOCK_OFFSET_IN_BYTES \in outstanding

\* C19 as stated, any error taken for the rejection: free of the arena's
\* length in bytes raises and changes no word of the arena.
FreeAtLengthRejected ==
  [][(last'.op = "free" /\ last'.arg = ArenaBytes) =>
       /\ last'.err # ""
       /\ int32Array' = int32Array]_vars

\* C19 witness: free of the arena's length in bytes has returned a size and
\* left the header's NEXT[0] pointing past the last word of the arena.
FreeAtLengthAccepted ==
  /\ last.op = "free"
  /\ last.arg = ArenaBytes
  /\ last.err = ""
  /\ last.ret > 0
  /\ Rd(int32Array, HEADER_OFFSET_IN_QUADS + NEXT_OFFSET_IN_QUADS) = ArrayLength(int32Array)

\* C20 as stated, any error taken for the rejection: free of the address of a
\* block that is free raises and changes no word of the arena.
DoubleFreeRejected ==
  [][(last'.op = "free" /\ last'.arg \in FreeAddresses) =>
       /\ last'.err # ""
       /\ int32Array' = int32Array]_vars

\* C20 witness: a second free of the address alloc first returned has given
\* back the size of the whole arena's free block and left that block's
\* NEXT[0] pointing at the block itself.
DoubleFreeAccepted ==
  /\ last.op = "free"
  /\ last.arg = FIRST_BLOCK_OFFSET_IN_BYTES
  /\ ~last.valid
  /\ last.err = ""
  /\ last.ret = quadsToBytes(PayloadQuads)
  /\ Rd(int32Array, FIRST_BLOCK_OFFSET_IN_QUADS + NEXT_OFFSET_IN_QUADS) = FIRST_BLOCK_OFFSET_IN_QUADS

\* C21 as stated: free of an address inside the arena, a multiple of 4, that
\* starts no block of the tiling raises an error and changes no word of the
\* arena.
StrayFreeRejected ==
  [][(last'.op = "free" /\ last'.arg \in InteriorAddresses) =>
       /\ last'.err # ""
       /\ int32Array' = int32Array]_vars

\* C21 witness: after alloc(12) and free of its address, free of the address
\* where the split had put the second block has found the old head tag in the
\* payload, returned its 44 bytes and overwritten the foot tag of the arena's
\* one free block.
StrayFreeAccepted ==
  /\ last.op = "free"
  /\ last.arg = FIRST_BLOCK_OFFSET_IN_BYTES + 20
  /\ ~last.valid
  /\ last.err = ""
  /\ last.ret = 44
  /\ Rd(int32Array, FIRST_BLOCK_OFFSET_IN_QUADS - 1) = PayloadQuads
  /\ Rd(int32Array, ArrayLength(int32Array) - 1) = 11

\* C22 as stated: for every address that passes the validation of free,
\* sizeOf returns 4 times the magnitude of the word before the address and
\* changes no word of the arena; for an address that fails it, it raises.
SizeOfEveryAddress ==
  [][last'.op = "sizeOf" =>
       /\ int32Array' = int32Array
       /\ IF InvalidAddress(last'.arg) THEN last'.err # ""
          ELSE /\ last'.err = ""
               /\ last'.ret = 4 * Abs(Rd(int32Array, bytesToQuads(last'.arg) - 1))]_vars

\* C22, amended: sizeOf changes no word of the arena; for an address that
\* fails the validation of free it raises a RangeError; for the address of a
\* block of the tiling, used or free, it returns 4 times the magnitude of the
\* block's head tag; for any other address that passes the validation it
\* returns 4 times the magnitude of the word before the address in a build
\* without the contracts, and raises the Error of readSize's contract in a
\* build with them when that contract is false.
SizeOfBlocks ==
  [][last'.op = "sizeOf" =>
       LET block == bytesToQuads(last'.arg)
           size == 4 * Abs(Rd(int32Array, block - 1))
       IN  /\ int32Array' = int32Array
           /\ IF InvalidAddress(last'.arg) THEN last'.err \in RangeErrors
              ELSE IF block \in Range(Tiling) THEN last'.err = "" /\ last'.ret = size
              ELSE \/ last'.err = "" /\ last'.ret = size
                   \/ /\ last'.err = "Error: Function precondition failed"
                      /\ ~sizeOfContractsMet(int32Array, ArenaBytes, last'.arg)]_vars

\* C22 witness: sizeOf has returned the size of a free block that lies
\* between two allocated blocks.
SizeOfBlocksWitness ==
  /\ last.op = "sizeOf"
  /\ last.err = ""
  /\ bytesToQuads(last.arg) \in FreeBlocksOf(int32Array)
  /\ last.ret = quadsToBytes(readSize(int32Array, bytesToQuads(last.arg)))
  /\ Cardinality(outstanding) >= 2
  /\ last.arg > FIRST_BLOCK_OFFSET_IN_BYTES

\* C23: inspect changes no word of the arena, does not raise, and returns the
\* blocks of the tiling in increasing address order, each with its byte
\* offset and byte size, typed 'free' iff its head tag is positive.
InspectFaithful ==
  [][last'.op = "inspect" =>
       LET blocks == last'.ret.blocks
       IN  /\ int32Array' = int32Array
           /\ last'.err = ""
           /\ Len(blocks) = Len(Tiling)
           /\ \A i \in 1..Len(blocks) :
                /\ blocks[i].offset = 4 * Tiling[i]
                /\ blocks[i].size = 4 * Abs(Rd(int32Array, Tiling[i] - 1))
                /\ blocks[i].type \in {"free", "used"}
                /\ blocks[i].type = "free" <=> Rd(int32Array, Tiling[i] - 1) > 0
           /\ \A i \in 1..(Len(blocks) - 1) : blocks[i].offset < blocks[i + 1].offset]_vars

\* C23 witness: inspect has listed a used block, a free block and a used
\* block, in that order.
InspectFaithfulWitness ==
  /\ last.op = "inspect"
  /\ last.err = ""
  /\ Len(last.ret.blocks) = 3
  /\ last.ret.blocks[1].type = "used"
  /\ last.ret.blocks[2].type = "free"
  /\ last.ret.blocks[3].type = "used"

\* The words fresh initialisation writes into a region of L quads, and what
\* verifyHeader and inspect make of them.
FreshLayout ==
  LET header == HEADER_OFFSET_IN_QUADS
      block == FIRST_BLOCK_OFFSET_IN_QUADS
      size == ArrayLength(int32Array) - 69
      shown == inspect(int32Array, FALSE)
  IN  /\ int32Array[header - 1] = 65
      /\ int32Array[header + 65] = 65
      /\ int32Array[header + HEIGHT_OFFSET_IN_QUADS] = 1
      /\ int32Array[header + NEXT_OFFSET_IN_QUADS] = block
      /\ \A i \in 1..31 : int32Array[header + NEXT_OFFSET_IN_QUADS + i] = header
      /\ Rd(int32Array, block - 1) = size
      /\ Rd(int32Array, block + size) = size
      /\ Rd(int32Array, block + HEIGHT_OFFSET_IN_QUADS) = 1
      /\ Rd(int32Array, block + NEXT_OFFSET_IN_QUADS) = header
      /\ verifyHeader(int32Array)
      /\ shown.err = ""
      /\ Len(shown.blocks) = 1
      /\ shown.blocks[1].type = "free"
      /\ shown.blocks[1].offset = quadsToBytes(block)
      /\ shown.blocks[1].size = quadsToBytes(size)

ArenaInvariants ==
  /\ TilingExact
  /\ TagAgreement
  /\ NoAdjacentFree
  /\ FreelistConsistency
  /\ SkipListSorted

\* C25 as stated: for every region length of at least OVERHEAD_IN_BYTES that
\* the constructor accepts, the initialised arena has a first free block of at
\* least MIN_FREEABLE_SIZE_IN_QUADS quads whose tags and link words lie inside
\* the arena, satisfies the arena invariants, and a following alloc(12)
\* returns 0 or the offset of a block of the arena.
MinimumRegion ==
  (last.op = "new" /\ last.fresh /\ last.err = "") =>
    LET block == FIRST_BLOCK_OFFSET_IN_QUADS
        size == readSize(int32Array, block)
    IN  /\ size >= MIN_FREEABLE_SIZE_IN_QUADS
        /\ {block - 1, block + HEIGHT_OFFSET_IN_QUADS, block + NEXT_OFFSET_IN_QUADS, block + size}
              \subseteq DOMAIN int32Array
        /\ ArenaInvariants
        /\ \A r \in RandomDraws :
             LET o == alloc(Machine, RegionBytes, 12, r)
             IN  /\ o.err = ""
                 /\ o.ret \in {0} \cup {quadsToBytes(b) : b \in Range(blocksFrom(o.a, block))}

\* C25 witness: the constructor has returned over a region of 276 bytes; the
\* head tag of the first block is 0, the last word of the arena holds the
\* block's height in place of a foot tag, and the walk of the arena meets no
\* block.
MinimumRegionBroken ==
  /\ last.op = "new"
  /\ last.fresh
  /\ last.err = ""
  /\ last.arg = OVERHEAD_IN_BYTES
  /\ int32Array[FIRST_BLOCK_OFFSET_IN_QUADS - 1] = 0
  /\ int32Array[FIRST_BLOCK_OFFSET_IN_QUADS] = 1
  /\ FIRST_BLOCK_OFFSET_IN_QUADS + NEXT_OFFSET_IN_QUADS \notin DOMAIN int32Array
  /\ Tiling = <<>>

\* C26: constructing a second allocator over an arena that an earlier
\* instance initialised, in any state reached by valid alloc and free calls,
\* changes no word of the arena and does not raise, and verifyHeader is true
\* of the array the two instances share.
AdoptionNoOp ==
  [][last'.op = "adopt" =>
       /\ int32Array' = int32Array
       /\ last'.err = ""
       /\ verifyHeader(int32Array')]_vars

\* C26 witness: a second allocator was constructed over an arena that holds
\* two allocated blocks around a free one.
AdoptionNoOpWitness ==
  /\ last.op = "adopt"
  /\ last.err = ""
  /\ Cardinality(outstanding) = 2
  /\ Len(Tiling) = 3
  /\ int32Array[Tiling[2] - 1] > 0

\* C27 as stated: constructing over an arena whose header words verify
\* raises whenever the rest of the arena violates an arena invariant.
AdoptionRejectsBroken ==
  (last.op = "adopt" /\ ~last.fresh /\ ~ArenaInvariants) => last.err # ""

\* C27 witness: the constructor, in the build that keeps the contracts, has
\* returned over an arena whose header words verify and whose header's
\* NEXT[0] was overwritten with the header's own offset, so that the free
\* block of the arena is no longer linked in the skip list.
AdoptionAcceptsBroken ==
  /\ last.op = "adopt"
  /\ ~last.fresh
  /\ last.contracts
  /\ last.err = ""
  /\ verifyHeader(int32Array)
  /\ int32Array[HEADER_OFFSET_IN_QUADS + NEXT_OFFSET_IN_QUADS] = HEADER_OFFSET_IN_QUADS
  /\ Chain(0) = <<>>
  /\ FreeBlocksOf(int32Array) # {}
  /\ outstanding # {}

\* C28 as stated: with two instances over disjoint arenas, every interleaving
\* of their valid alloc and free calls leaves each arena satisfying the arena
\* invariants and equal to the arena that the instance's calls produce when
\* run alone with the same sampled heights.
ScratchIsolation ==
  /\ last.alone
  /\ SoundArena(int32Array)
  /\ SoundArena(secondInstance.int32Array)

\* C28 witness: a call of one instance did not raise, did not do what it does
\* alone, and left the instance's arena unsound.
ScratchShared ==
  /\ last.op \in {"alloc", "free"}
  /\ last.err = ""
  /\ ~last.alone
  /\ ~SoundArena(ArenaOf(last.instance))

\* C29: in every state reached by valid alloc and free calls, every free
\* block of size S stores a height H with 1 <= H <= MAX_HEIGHT, H no greater
\* than the header's height, and H <= S - 2, so that its link words
\* NEXT[0..H) lie between its height word and its foot tag.
HeightRange ==
  \A b \in FreeBlocksOf(int32Array) :
    LET H == int32Array[b + HEIGHT_OFFSET_IN_QUADS]
        S == readSize(int32Array, b)
    IN  /\ 1 <= H
        /\ H <= MAX_HEIGHT
        /\ H <= ListHeight
        /\ H <= S - 2
        /\ \A i \in 0..(H - 1) : b + NEXT_OFFSET_IN_QUADS + i < b + S

\* C29 witness: a free has inserted a block of 4 quads whose height is 2,
\* the most its size allows, while another free block is linked too.
HeightRangeWitness ==
  /\ last.op = "free"
  /\ bytesToQuads(last.arg) \in FreeBlocksOf(int32Array)
  /\ readSize(int32Array, bytesToQuads(last.arg)) = 4
  /\ int32Array[bytesToQuads(last.arg) + HEIGHT_OFFSET_IN_QUADS] = 2
  /\ ListHeight = 2
  /\ Cardinality(FreeBlocksOf(int32Array)) = 2

\* The heights stored in the free blocks of the arena.
FreeHeights == {int32Array[b + HEIGHT_OFFSET_IN_QUADS] : b \in FreeBlocksOf(int32Array)}

\* C30 as stated: in every state reached by valid alloc and free calls the
\* header's height equals the greatest height stored in a free block, and
\* equals 1 when the arena has no free block.
HeaderHeight ==
  IF FreeBlocksOf(int32Array) = {} THEN ListHeight = 1
  ELSE /\ ListHeight \in FreeHeights
       /\ \A H \in FreeHeights : H <= ListHeight

\* C30, amended: in every state reached by valid alloc and free calls the
\* header's height equals the greatest height stored in a free block, and
\* equals 0 when the arena has no free block.
HeaderHeightOrZero ==
  IF FreeBlocksOf(int32Array) = {} THEN ListHeight = 0
  ELSE /\ ListHeight \in FreeHeights
       /\ \A H \in FreeHeights : H <= ListHeight

\* C30 witness: an alloc has taken the last free block whole, a block that
\* had height 2, and the header's height is 0.
HeaderHeightOrZeroWitness ==
  /\ last.op = "alloc"
  /\ last.ret # 0
  /\ FreeBlocksOf(int32Array) = {}
  /\ int32Array[bytesToQuads(last.ret) + HEIGHT_OFFSET_IN_QUADS] = 2
  /\ ListHeight = 0

\* C31: on a fresh arena of 4096 bytes alloc(16) returns an address exactly
\* 159 times before it returns 0; every block returned has a size between 16
\* and 32 bytes; freeing the addresses in reverse order returns a value
\* between 16 and 32 each time and leaves exactly one free block.
Exhaust16 ==
  /\ last.err = ""
  /\ (last.op = "alloc" /\ last.ret = 0) => last.counter = 159
  /\ (last.op = "alloc" /\ last.ret # 0) =>
       /\ last.counter <= 159
       /\ sizeOf(Machine, ExhaustBytes, last.ret).ret \in 16..32
       /\ sizeOf(Machine, ExhaustBytes, last.ret).err = ""
  /\ last.op = "free" => last.ret \in 16..32
  /\ (last.op = "free" /\ last.addresses = <<>>) =>
       /\ Len(Tiling) = 1
       /\ FreeBlocksOf(int32Array) = {FIRST_BLOCK_OFFSET_IN_QUADS}

\* C31 witness: the 159 addresses have all been freed again and the arena
\* is one free block.
Exhaust16Witness ==
  /\ last.op = "free"
  /\ last.counter = 159
  /\ last.addresses = <<>>
  /\ Len(Tiling) = 1
  /\ int32Array[FIRST_BLOCK_OFFSET_IN_QUADS - 1] = bytesToQuads(ExhaustBytes) - 69

\* C32: on a fresh arena, allocs in a row that each leave a remainder to
\* split off return strictly increasing offsets, the k-th being
\* FIRST_BLOCK_OFFSET_IN_BYTES plus the sum over the earlier requests of
\* (size + 8), and inspect lists these blocks first, in the order of the
\* allocs, as used and with exactly the sizes requested.
SequentialPlacement ==
  (last.op = "alloc" /\ last.splits) =>
    LET shown == inspect(int32Array, FALSE)
    IN  /\ last.err = ""
        /\ shown.err = ""
        /\ Len(shown.blocks) > Len(last.sizes)
        /\ \A k \in DOMAIN last.sizes :
             /\ last.addresses[k] = FIRST_BLOCK_OFFSET_IN_BYTES + SumWithTags(last.sizes, k - 1)
             /\ k > 1 => last.addresses[k - 1] < last.addresses[k]
             /\ shown.blocks[k].type = "used"
             /\ shown.blocks[k].offset = last.addresses[k]
             /\ shown.blocks[k].size = last.sizes[k]

\* C32 witness: four allocs in a row, of 12, 16, 16 and 12 bytes, have each
\* split a block.
SequentialPlacementWitness ==
  /\ last.op = "alloc"
  /\ last.splits
  /\ last.sizes = <<12, 16, 16, 12>>
  /\ last.ret = FIRST_BLOCK_OFFSET_IN_BYTES + 20 + 24 + 24

\* The sequence s without the element x.
RECURSIVE Without(_, _)
Without(s, x) ==
  IF s = <<>> THEN <<>>
  ELSE IF Head(s) = x THEN Without(Tail(s), x)
  ELSE <<Head(s)>> \o Without(Tail(s), x)

\* The array after remove(B, S) holds B with both tags -S, no NEXT word of
\* the header or of another free block equal to B, and at every level the
\* chain it had before, less B.
Unlinked(after, B, S) ==
  /\ Rd(after, B - 1) = -S
  /\ Rd(after, B + S) = -S
  /\ \A i \in 0..(MAX_HEIGHT - 1) :
       Rd(after, HEADER_OFFSET_IN_QUADS + NEXT_OFFSET_IN_QUADS + i) # B
  /\ \A node \in FreeBlocksOf(int32Array) \ {B} :
       /\ Rd(after, node - 1) > 0
       /\ Rd(after, node + HEIGHT_OFFSET_IN_QUADS) = Rd(int32Array, node + HEIGHT_OFFSET_IN_QUADS)
       /\ \A i \in 0..(Rd(after, node + HEIGHT_OFFSET_IN_QUADS) - 1) :
            Rd(after, node + NEXT_OFFSET_IN_QUADS + i) # B
  /\ \A i \in 0..(MAX_HEIGHT - 1) :
       i < ListHeight =>
         chainFrom(after, Rd(after, HEADER_OFFSET_IN_QUADS + NEXT_OFFSET_IN_QUADS + i), i,
                   ArrayLength(after)) = Without(Chain(i), B)

splitInsertPoint(m, block, firstSize, blockSize) ==
  LET second == block + firstSize + POINTER_OVERHEAD_IN_QUADS
      secondSize == blockSize - (second - block)
      m1 == remove(m, block, blockSize)
      a1 == Wr(m1.a, block - 1, -firstSize)
      a2 == Wr(a1, block + firstSize, -firstSize)
      a3 == Wr(a2, second - 1, -secondSize)
      a4 == Wr(a3, second + secondSize, -secondSize)
  IN  [m |-> [a |-> a4, u |-> m1.u, err |-> m1.err], block |-> second, blockSize |-> secondSize]

\* What free hands to insert, through insertMiddle, insertAfter,
\* insertBefore or directly: the machine once the free neighbours are
\* removed and the tags of the joined block are written, the block and its size.
freeInsertPoint(m, address) ==
  LET block == bytesToQuads(address)
      blockSize == readSize(m.a, block)
      preceding == getFreeBlockBefore(m.a, block)
      trailing == getFreeBlockAfter(m.a, block)
      precedingSize == (block - preceding) - POINTER_OVERHEAD_IN_QUADS
      trailingSize == readSize(m.a, trailing)
      m1 == IF preceding # 0 THEN remove(m, preceding, precedingSize) ELSE m
      m2 == IF trailing # 0 THEN remove(m1, trailing, trailingSize) ELSE m1
      first == IF preceding # 0 THEN preceding ELSE block
      end == IF trailing # 0 THEN trailing + trailingSize ELSE block + blockSize
      size == end - first
      a1 == Wr(m2.a, first - POINTER_SIZE_IN_QUADS, -size)
      a2 == Wr(a1, end, -size)
  IN  [m |-> [a |-> a2, u |-> m2.u, err |-> m2.err], block |-> first, blockSize |-> size]

\* The calls of insert made by the alloc and free calls the state allows.
InsertPoints ==
  {splitInsertPoint(Machine, findFreeBlock(int32Array, bytesToQuads(n)), bytesToQuads(n),
                    readSize(int32Array, findFreeBlock(int32Array, bytesToQuads(n)))) :
     n \in {k \in AllocSizes :
              LET block == findFreeBlock(int32Array, bytesToQuads(k))
              IN  /\ ~noBlockFound(block)
                  /\ shouldSplit(readSize(int32Array, block), bytesToQuads(k))}}
  \cup {freeInsertPoint(Machine, address) : address \in outstanding}

\* The height generateHeight samples for r and cuts down to the block's size.
ClampedHeight(blockSize, r) ==
  IF blockSize - 1 < randomHeight(r) + 1 THEN blockSize - 2 ELSE randomHeight(r)

\* insert at the point p with the draw r raises the header height by at
\* most one, and a node higher than the list gets the new top level alone.
GrowsByOne(p, r) ==
  LET h == Rd(p.m.a, HEADER_OFFSET_IN_QUADS + HEIGHT_OFFSET_IN_QUADS)
      after == insert(p.m, p.block, p.blockSize, r)
      headerHeight == Rd(after.a, HEADER_OFFSET_IN_QUADS + HEIGHT_OFFSET_IN_QUADS)
  IN  /\ p.m.err = ""
      /\ after.err = ""
      /\ headerHeight \in {h, h + 1}
      /\ ClampedHeight(p.blockSize, r) > h =>
           /\ headerHeight = h + 1
           /\ Rd(after.a, p.block + HEIGHT_OFFSET_IN_QUADS) = h + 1
           /\ Rd(p.m.u, h) = HEADER_OFFSET_IN_QUADS
           /\ Rd(after.a, HEADER_OFFSET_IN_QUADS + NEXT_OFFSET_IN_QUADS + h) = p.block
           /\ Rd(after.a, p.block + NEXT_OFFSET_IN_QUADS + h) = HEADER_OFFSET_IN_QUADS
      /\ ClampedHeight(p.blockSize, r) <= h => headerHeight = h

\* C34: every insert that an alloc or a free of a single instance makes
\* raises the header height by at most one; when the sampled and clamped
\* height exceeds the list height h the node gets height h + 1, the
\* predecessor at level h is the header, and afterwards header.NEXT[h] is
\* the block and the block's NEXT[h] is the header.
ListHeightGrowth == \A p \in InsertPoints : \A r \in RandomDraws : GrowsByOne(p, r)

\* C34 witness: an insert raises a list of height 1 to height 2 while
\* UPDATES still holds a free block that an earlier remove left there.
ListHeightGrowthWitness ==
  \E p \in InsertPoints : \E r \in RandomDraws :
    /\ Rd(p.m.a, HEADER_OFFSET_IN_QUADS + HEIGHT_OFFSET_IN_QUADS) = 1
    /\ ClampedHeight(p.blockSize, r) > 1
    /\ \E i \in 0..(MAX_HEIGHT - 1) : Rd(p.m.u, i) # HEADER_OFFSET_IN_QUADS
    /\ GrowsByOne(p, r)

\* C35: in every state reached by valid alloc and free calls, every NEXT
\* word of the header at a level from the header height up to
\* MAX_HEIGHT - 1 holds the header's own index, also when no block is free.
HeaderSelfLoop ==
  \A i \in 0..(MAX_HEIGHT - 1) :
    ListHeight <= i =>
      int32Array[HEADER_OFFSET_IN_QUADS + NEXT_OFFSET_IN_QUADS + i] = HEADER_OFFSET_IN_QUADS

\* C35 witness: the last free block was allocated whole, the header height
\* fell to 0 and all MAX_HEIGHT words of the header point at the header.
HeaderSelfLoopWitness ==
  /\ last.op = "alloc"
  /\ last.ret # 0
  /\ FreeBlocksOf(int32Array) = {}
  /\ ListHeight = 0
  /\ \A i \in 0..(MAX_HEIGHT - 1) :
       int32Array[HEADER_OFFSET_IN_QUADS + NEXT_OFFSET_IN_QUADS + i] = HEADER_OFFSET_IN_QUADS

\* ------------------------------------------------------------ the same calls under other heights
\* Two processes run the same calls on arenas of the same size: the first
\* samples any height at every insert, the reference run (held in
\* secondInstance, with the UPDATES array of its own process) samples
\* height 1 every time.  Runs that agree with the reference run agree with
\* each other.
ReferenceDraw == CHOOSE r \in RandomDraws : randomHeight(r) = 1

Reference == [a |-> secondInstance.a, u |-> secondInstance.u, err |-> ""]

\* What inspect shows of an arena apart from the heights and the upper
\* levels: offset, size and state of every block, and the free blocks in
\* the order of NEXT[0].
Layout(a) ==
  [tiling |-> [i \in DOMAIN blocksFrom(a, FIRST_BLOCK_OFFSET_IN_QUADS) |->
                 LET block == blocksFrom(a, FIRST_BLOCK_OFFSET_IN_QUADS)[i]
                 IN  <<block, Rd(a, block - 1), Rd(a, block + readSize(a, block))>>],
   order |-> chainFrom(a, Rd(a, HEADER_OFFSET_IN_QUADS + NEXT_OFFSET_IN_QUADS), 0, ArrayLength(a))]

InitHeights ==
  /\ \E fill \in FillWords : int32Array = prepare(FreshArena(fill))
  /\ UPDATES = FreshUpdates
  /\ outstanding = {}
  /\ secondInstance = [a |-> int32Array, u |-> FreshUpdates]
  /\ last = [op |-> "new", arg |-> ArenaBytes, ret |-> 0, err |-> "",
             reference |-> [ret |-> 0, err |-> ""]]

\* The two runs have agreed so far.
Agreed ==
  /\ last.ret = last.reference.ret
  /\ last.err = last.reference.err
  /\ Layout(int32Array) = Layout(secondInstance.a)

AllocBoth ==
  /\ Agreed
  /\ \E n \in AllocSizes, r \in RandomDraws :
       \E o \in {alloc(Machine, ArenaBytes, n, r)},
          p \in {alloc(Reference, ArenaBytes, n, ReferenceDraw)} :
           /\ int32Array' = o.a
           /\ UPDATES' = o.u
           /\ outstanding' = IF o.err = "" /\ o.ret # 0 THEN outstanding \cup {o.ret} ELSE outstanding
           /\ secondInstance' = [a |-> p.a, u |-> p.u]
           /\ last' = [op |-> "alloc", arg |-> n, ret |-> o.ret, err |-> o.err,
                       reference |-> [ret |-> p.ret, err |-> p.err]]

FreeBoth ==
  /\ Agreed
  /\ \E addr \in outstanding, r \in RandomDraws :
       \E o \in {free(Machine, ArenaBytes, addr, r)},
          p \in {free(Reference, ArenaBytes, addr, ReferenceDraw)} :
           /\ int32Array' = o.a
           /\ UPDATES' = o.u
           /\ outstanding' = IF o.err = "" THEN outstanding \ {addr} ELSE outstanding
           /\ secondInstance' = [a |-> p.a, u |-> p.u]
           /\ last' = [op |-> "free", arg |-> addr, ret |-> o.ret, err |-> o.err,
                       reference |-> [ret |-> p.ret, err |-> p.err]]

NextHeights == AllocBoth \/ FreeBoth

HeightsSpec == InitHeights /\ [][NextHeights]_vars

\* C36: after the same valid alloc and free calls on a fresh arena, a run
\* with any sampled heights and the run that samples height 1 throughout
\* have returned the same value from the last call, raised nothing, and
\* hold the same tiling and the same order of free blocks along NEXT[0].
HeightsDoNotAffectResults ==
  /\ Agreed
  /\ last.err = ""

\* C36 witness: the runs differ in their heights (the first holds a list of
\* two levels, the reference run one of a single level), two blocks are
\* free and the last call, a free, returned the same in both.
HeightsDoNotAffectResultsWitness ==
  /\ last.op = "free"
  /\ Agreed
  /\ ListHeight = 2
  /\ Rd(secondInstance.a, HEADER_OFFSET_IN_QUADS + HEIGHT_OFFSET_IN_QUADS) = 1
  /\ Len(Layout(int32Array).order) = 2
  /\ int32Array # secondInstance.a

\* The blocks passed when following NEXT[level] from the header, the walk
\* being cut one block after as many as there are free blocks: a walk that
\* is not back at the header by then shows as a longer sequence.
BoundedWalk(level) ==
  chainFrom(int32Array, Rd(int32Array, HEADER_OFFSET_IN_QUADS + NEXT_OFFSET_IN_QUADS + level),
            level, Cardinality(FreeBlocksOf(int32Array)) + 1)

\* C37: every valid alloc and free has run to completion without raising,
\* and at every level below the header height the walk along NEXT from the
\* header is back at the header after passing at most as many blocks as
\* are free, each of them a free block, so that the walks of
\* findFreeBlock, findPredecessors and remove end.
WalksTerminate ==
  /\ last.err = ""
  /\ \A level \in 0..(MAX_HEIGHT - 1) :
       level < ListHeight =>
         /\ Len(BoundedWalk(level)) <= Cardinality(FreeBlocksOf(int32Array))
         /\ Range(BoundedWalk(level)) \subseteq FreeBlocksOf(int32Array)

\* C37 witness: after a free the list has two levels and two free blocks,
\* and the walk on level 0 passes both of them before it is back at the
\* header.
WalksTerminateWitness ==
  /\ last.op = "free"
  /\ ListHeight = 2
  /\ Cardinality(FreeBlocksOf(int32Array)) = 2
  /\ Len(BoundedWalk(0)) = 2
  /\ Len(BoundedWalk(1)) >= 1

\* ------------------------------------------------------------ the linked-list variant (src/src/index.js)
\* The earlier allocator of the repository: one doubly linked list of free
\* blocks sorted by size, a header of 16 quads, and a height field that
\* insert samples and fills but no walk follows.  Its operators carry the
\* source's names with the prefix linked.
LINKED_HEADER_SIZE_IN_QUADS == 16
LINKED_MIN_FREEABLE_SIZE_IN_QUADS == 6
LINKED_FIRST_BLOCK_OFFSET_IN_QUADS ==
  HEADER_OFFSET_IN_QUADS + LINKED_HEADER_SIZE_IN_QUADS + POINTER_OVERHEAD_IN_QUADS
LINKED_NEXT_OFFSET_IN_QUADS == 1
LINKED_PREV_OFFSET_IN_QUADS == 2

\* The length in quads of the linked-list arena, and the sizes alloc is called with.
LinkedQuads == 40
LinkedAllocSizes == {24, 28}

\* value|0 of a number given as twice its value: the fraction is dropped.
TruncatedHalf(twice) == IF twice < 0 THEN -((-twice) \div 2) ELSE twice \div 2

linkedWriteHeight(a, value, block) == Wr(a, block + HEIGHT_OFFSET_IN_QUADS, value)
linkedReadNext(a, block) == Rd(a, block + LINKED_NEXT_OFFSET_IN_QUADS)
linkedWriteNext(a, value, block) == Wr(a, block + LINKED_NEXT_OFFSET_IN_QUADS, value)
linkedReadPrev(a, block) == Rd(a, block + LINKED_PREV_OFFSET_IN_QUADS)
linkedWritePrev(a, value, block) == Wr(a, block + LINKED_PREV_OFFSET_IN_QUADS, value)
linkedReadSize(a, block) == Abs(Rd(a, block - 1))
linkedWriteSize(a, size, block) == Wr(Wr(a, block - 1, size), block + Abs(size), size)

linkedVerifyHeader(a) ==
  /\ linkedReadSize(a, HEADER_OFFSET_IN_QUADS) = LINKED_HEADER_SIZE_IN_QUADS
  /\ Rd(a, HEADER_OFFSET_IN_QUADS + LINKED_HEADER_SIZE_IN_QUADS) = LINKED_HEADER_SIZE_IN_QUADS

linkedWriteInitialHeader(a) ==
  LET header == HEADER_OFFSET_IN_QUADS
      headerSize == LINKED_HEADER_SIZE_IN_QUADS
      block == LINKED_FIRST_BLOCK_OFFSET_IN_QUADS
      blockSize == ArrayLength(a) - (header + headerSize + POINTER_OVERHEAD_IN_QUADS + POINTER_SIZE_IN_QUADS)
      a1 == linkedWriteSize(a, headerSize, header)
      a2 == linkedWriteHeight(a1, 1, header)
      a3 == linkedWriteNext(a2, block, header)
      a4 == linkedWritePrev(a3, block, header)
      a5 == linkedWriteSize(a4, blockSize, block)
      a6 == linkedWriteHeight(a5, 1, block)
      a7 == linkedWriteNext(a6, header, block)
  IN  linkedWritePrev(a7, header, block)

linkedPrepare(a) == IF linkedVerifyHeader(a) THEN a ELSE linkedWriteInitialHeader(a)

\* The loop of findFreeBlock from block on.
RECURSIVE linkedFindFreeBlockFrom(_, _, _)
linkedFindFreeBlockFrom(a, block, minimumSize) ==
  IF block > HEADER_OFFSET_IN_QUADS
  THEN IF linkedReadSize(a, block) >= minimumSize THEN block
       ELSE linkedFindFreeBlockFrom(a, linkedReadNext(a, block), minimumSize)
  ELSE 0

linkedFindFreeBlock(a, minimumSize) ==
  linkedFindFreeBlockFrom(a, Rd(a, HEADER_OFFSET_IN_QUADS + LINKED_NEXT_OFFSET_IN_QUADS), minimumSize)

linkedRandomHeight(r) == randomHeightLoop(r, 1)

\* generateHeight: the array after it and twice the height it returns,
\* (blockSize - 1) / 2 being a division of numbers that is not rounded.
linkedGenerateHeight(a, blockSize, r) ==
  LET listHeight == Rd(a, HEADER_OFFSET_IN_QUADS + HEIGHT_OFFSET_IN_QUADS)
      sampled == linkedRandomHeight(r)
      twice == IF blockSize < (sampled * 2) + 1 THEN blockSize - 1 ELSE sampled * 2
  IN  IF twice > listHeight * 2
      THEN [a |-> Wr(a, HEADER_OFFSET_IN_QUADS + HEIGHT_OFFSET_IN_QUADS, listHeight + 1),
            twice |-> (listHeight + 1) * 2]
      ELSE [a |-> a, twice |-> twice]

\* The loop of insert that fills the block's levels: for (i = 0; i < blockHeight; i++).
RECURSIVE linkedInsertFill(_, _, _, _, _, _)
linkedInsertFill(a, block, next, prev, i, twice) ==
  IF i * 2 < twice
  THEN LET a1 == Wr(a, block + LINKED_NEXT_OFFSET_IN_QUADS + (i * 2), next)
           a2 == Wr(a1, block + LINKED_PREV_OFFSET_IN_QUADS + (i * 2), prev)
       IN  linkedInsertFill(a2, block, next, prev, i + 1, twice)
  ELSE a

\* The walk of insert to the first block of at least blockSize.
RECURSIVE linkedInsertWalk(_, _, _, _)
linkedInsertWalk(a, prev, next, blockSize) ==
  IF next > HEADER_OFFSET_IN_QUADS /\ linkedReadSize(a, next) < blockSize
  THEN linkedInsertWalk(a, next, linkedReadNext(a, next), blockSize)
  ELSE [prev |-> prev, next |-> next]

linkedInsert(a, block, blockSize, r) ==
  LET w == linkedInsertWalk(a, HEADER_OFFSET_IN_QUADS,
                            Rd(a, HEADER_OFFSET_IN_QUADS + LINKED_NEXT_OFFSET_IN_QUADS), blockSize)
      a1 == linkedWriteSize(a, blockSize, block)
      g == linkedGenerateHeight(a1, blockSize, r)
      a2 == linkedWriteHeight(g.a, TruncatedHalf(g.twice), block)
      a3 == linkedInsertFill(a2, block, w.next, w.prev, 0, g.twice)
      a4 == Wr(a3, w.prev + LINKED_NEXT_OFFSET_IN_QUADS, block)
  IN  Wr(a4, w.next + LINKED_PREV_OFFSET_IN_QUADS, block)

linkedRemove(a, block, blockSize) ==
  LET next == linkedReadNext(a, block)
      prev == linkedReadPrev(a, block)
      a1 == linkedWriteNext(a, next, prev)
      a2 == linkedWritePrev(a1, prev, next)
  IN  linkedWriteSize(a2, -blockSize, block)

linkedSplit(a, block, firstSize, blockSize, r) ==
  LET next == linkedReadNext(a, block)
      prev == linkedReadPrev(a, block)
      a1 == linkedWriteNext(a, next, prev)
      a2 == linkedWritePrev(a1, prev, next)
      a3 == linkedWriteSize(a2, -firstSize, block)
      second == block + firstSize + POINTER_OVERHEAD_IN_QUADS
      secondSize == blockSize - (second - block)
  IN  linkedInsert(a3, second, secondSize, r)

linkedGetFreeBlockBefore(a, block) ==
  IF block <= LINKED_FIRST_BLOCK_OFFSET_IN_QUADS THEN 0
  ELSE LET beforeSize == Rd(a, block - POINTER_OVERHEAD_IN_QUADS)
       IN  IF beforeSize < POINTER_OVERHEAD_IN_QUADS THEN 0
           ELSE block - (POINTER_OVERHEAD_IN_QUADS + beforeSize)

\* getFreeBlockAfter: past the end of the array nextSize is undefined, the
\* comparison with it is false and next is returned.
linkedGetFreeBlockAfter(a, block) ==
  LET blockSize == linkedReadSize(a, block)
      next == block + blockSize + POINTER_OVERHEAD_IN_QUADS
  IN  IF (next - POINTER_SIZE_IN_QUADS) \in DOMAIN a
         /\ a[next - POINTER_SIZE_IN_QUADS] < POINTER_OVERHEAD_IN_QUADS
      THEN 0
      ELSE next

linkedInsertBefore(a, trailing, block, r) ==
  LET blockSize == linkedReadSize(a, block)
      trailingSize == linkedReadSize(a, trailing)
      a1 == linkedRemove(a, trailing, trailingSize)
      size == blockSize + trailingSize + POINTER_OVERHEAD_IN_QUADS
      a2 == Wr(a1, block - POINTER_SIZE_IN_QUADS, size)
      a3 == Wr(a2, trailing + trailingSize, size)
  IN  [a |-> linkedInsert(a3, block, size, r), ret |-> blockSize]

linkedInsertMiddle(a, preceding, block, trailing, r) ==
  LET blockSize == linkedReadSize(a, block)
      precedingSize == (block - preceding) - POINTER_OVERHEAD_IN_QUADS
      trailingSize == linkedReadSize(a, trailing)
      size == (trailing - preceding) + trailingSize
      a1 == linkedRemove(a, preceding, precedingSize)
      a2 == linkedRemove(a1, trailing, trailingSize)
      a3 == Wr(a2, preceding - POINTER_SIZE_IN_QUADS, size)
      a4 == Wr(a3, trailing + trailingSize, size)
  IN  [a |-> linkedInsert(a4, preceding, size, r), ret |-> blockSize]

linkedInsertAfter(a, preceding, block, r) ==
  LET precedingSize == (block - preceding) - POINTER_OVERHEAD_IN_QUADS
      a1 == linkedRemove(a, preceding, precedingSize)
      blockSize == linkedReadSize(a1, block)
      size == (block - preceding) + blockSize
      a2 == Wr(a1, preceding - POINTER_SIZE_IN_QUADS, size)
      a3 == Wr(a2, block + blockSize, size)
  IN  [a |-> linkedInsert(a3, preceding, size, r), ret |-> blockSize]

\* Allocator.alloc(numberOfBytes) of the variant: the array after it and the value returned.
linkedAlloc(a, numberOfBytes, r) ==
  LET minimumSize == bytesToQuads(numberOfBytes)
      block == linkedFindFreeBlock(a, minimumSize)
      blockSize == linkedReadSize(a, block)
  IN  IF block <= HEADER_OFFSET_IN_QUADS THEN [a |-> a, ret |-> 0]
      ELSE IF blockSize - minimumSize >= LINKED_MIN_FREEABLE_SIZE_IN_QUADS
      THEN [a |-> linkedSplit(a, block, minimumSize, blockSize, r), ret |-> quadsToBytes(block)]
      ELSE [a |-> linkedRemove(a, block, blockSize), ret |-> quadsToBytes(block)]

\* Allocator.free(block) of the variant.
linkedFree(a, address, r) ==
  LET block == bytesToQuads(address)
      preceding == linkedGetFreeBlockBefore(a, block)
      trailing == linkedGetFreeBlockAfter(a, block)
      o == IF preceding # 0
           THEN IF trailing # 0
                THEN linkedInsertMiddle(a, preceding, block, trailing, r)
                ELSE linkedInsertAfter(a, preceding, block, r)
           ELSE IF trailing # 0
           THEN linkedInsertBefore(a, trailing, block, r)
           ELSE [a |-> linkedInsert(a, block, linkedReadSize(a, block), r),
                 ret |-> linkedReadSize(a, block)]
  IN  IF block < LINKED_FIRST_BLOCK_OFFSET_IN_QUADS THEN [a |-> a, ret |-> 0]
      ELSE [a |-> o.a, ret |-> quadsToBytes(o.ret)]

\* The blocks inspect of the variant walks, by their head tags.
RECURSIVE linkedBlocksFrom(_, _)
linkedBlocksFrom(a, pointer) ==
  IF pointer < ArrayLength(a) - POINTER_SIZE_IN_QUADS
  THEN <<pointer>> \o linkedBlocksFrom(a, pointer + linkedReadSize(a, pointer) + POINTER_OVERHEAD_IN_QUADS)
  ELSE <<>>

\* Every block's head tag is also the word at its foot.
LinkedTagsAgree ==
  \A block \in Range(linkedBlocksFrom(int32Array, LINKED_FIRST_BLOCK_OFFSET_IN_QUADS)) :
    /\ (block + linkedReadSize(int32Array, block)) \in DOMAIN int32Array
    /\ int32Array[block - 1] = int32Array[block + linkedReadSize(int32Array, block)]

InitLinked ==
  /\ \E fill \in FillWords : int32Array = linkedPrepare([i \in 0..(LinkedQuads - 1) |-> fill])
  /\ UPDATES = FreshUpdates
  /\ outstanding = {}
  /\ secondInstance = NoSecond
  /\ last = [op |-> "new", arg |-> quadsToBytes(LinkedQuads), ret |-> 0, err |-> "", draw |-> 0]

\* alloc of a multiple of 4 of at least 24 bytes; calls go on while the tags agree.
LinkedAlloc ==
  /\ LinkedTagsAgree
  /\ \E n \in LinkedAllocSizes, r \in RandomDraws :
       \E o \in {linkedAlloc(int32Array, n, r)} :
         /\ int32Array' = o.a
         /\ outstanding' = IF o.ret # 0 THEN outstanding \cup {o.ret} ELSE outstanding
         /\ last' = [op |-> "alloc", arg |-> n, ret |-> o.ret, err |-> "", draw |-> r]
         /\ UNCHANGED <<UPDATES, secondInstance>>

\* free of an address alloc returned that was not freed since.
LinkedFree ==
  /\ LinkedTagsAgree
  /\ \E addr \in outstanding, r \in RandomDraws :
       \E o \in {linkedFree(int32Array, addr, r)} :
         /\ int32Array' = o.a
         /\ outstanding' = outstanding \ {addr}
         /\ last' = [op |-> "free", arg |-> addr, ret |-> o.ret, err |-> "", draw |-> r]
         /\ UNCHANGED <<UPDATES, secondInstance>>

NextLinked == LinkedAlloc \/ LinkedFree

LinkedSpec == InitLinked /\ [][NextLinked]_vars

\* C38: in the linked-list variant, after every alloc of a multiple of 4 of
\* at least 24 bytes and every free of an outstanding address, with every
\* sampled height, insert has written only inside the payload of the
\* inserted block: every block's head tag equals its foot tag.
LinkedInsertInsidePayload == LinkedTagsAgree

\* C38 failure reached: a free of a block of 6 quads has run insert with a
\* sampled height of 3, and the word at the block's foot is no longer its
\* size but the list pointer insert wrote there.
LinkedFootOverwritten ==
  /\ last.op = "free"
  /\ linkedRandomHeight(last.draw) = 3
  /\ LET block == bytesToQuads(last.arg)
     IN  /\ int32Array[block - 1] = LINKED_MIN_FREEABLE_SIZE_IN_QUADS
         /\ int32Array[block + LINKED_MIN_FREEABLE_SIZE_IN_QUADS] # int32Array[block - 1]
         /\ int32Array[block + LINKED_MIN_FREEABLE_SIZE_IN_QUADS] = linkedReadPrev(int32Array, block)

\* ------------------------------------------------------------ the byte-addressed variant (src/unnamed/part_001)
\* The first allocator of the repository: offsets and sizes are in bytes,
\* the free blocks form one list sorted by size.  readInt32 and writeInt32
\* come from ./util, which is not among the sources: they are taken to read
\* and write the 32-bit word at a byte offset inside the buffer, and a call
\* that reads outside the buffer ends the run.  The buffer is held as its
\* words; its operators carry the source's names with the prefix byte.
BYTE_POINTER_SIZE == 4
BYTE_POINTER_OVERHEAD == BYTE_POINTER_SIZE * 2
BYTE_HEADER_OFFSET == BYTE_POINTER_SIZE
BYTE_HEADER_SIZE == 64
BYTE_NEXT_OFFSET == 4
BYTE_PREV_OFFSET == 8
BYTE_MIN_FREEABLE_SIZE == 64
BYTE_FIRST_BLOCK == BYTE_HEADER_OFFSET + BYTE_HEADER_SIZE + BYTE_POINTER_OVERHEAD

\* The length of the buffer in 32-bit words, and the sizes alloc is called with.
ByteWords == 81
ByteAllocSizes == {64, 96}

BufferLength(buffer) == Cardinality(DOMAIN buffer) * BYTE_POINTER_SIZE

readInt32(buffer, offset) == Rd(buffer, offset \div BYTE_POINTER_SIZE)
writeInt32(buffer, value, offset) == Wr(buffer, offset \div BYTE_POINTER_SIZE, value)

byteReadNext(buffer, block) == readInt32(buffer, block + BYTE_NEXT_OFFSET)
byteReadPrev(buffer, block) == readInt32(buffer, block + BYTE_PREV_OFFSET)
byteWriteNext(buffer, value, block) == writeInt32(buffer, value, block + BYTE_NEXT_OFFSET)
byteWritePrev(buffer, value, block) == writeInt32(buffer, value, block + BYTE_PREV_OFFSET)
byteReadSize(buffer, block) == Abs(readInt32(buffer, block - BYTE_POINTER_SIZE))
byteWriteSize(buffer, size, block) ==
  writeInt32(writeInt32(buffer, size, block - BYTE_POINTER_SIZE), size, block + Abs(size))

byteVerifyHeader(buffer) ==
  /\ byteReadSize(buffer, BYTE_HEADER_OFFSET) = BYTE_HEADER_SIZE
  /\ readInt32(buffer, BYTE_HEADER_OFFSET + BYTE_HEADER_SIZE) = BYTE_HEADER_SIZE

byteWriteInitialHeader(buffer) ==
  LET block == BYTE_FIRST_BLOCK
      blockSize == BufferLength(buffer)
                   - (BYTE_HEADER_OFFSET + BYTE_HEADER_SIZE + BYTE_POINTER_OVERHEAD + BYTE_POINTER_SIZE)
      b1 == byteWriteSize(buffer, BYTE_HEADER_SIZE, BYTE_HEADER_OFFSET)
      b2 == byteWriteNext(b1, block, BYTE_HEADER_OFFSET)
      b3 == byteWritePrev(b2, block, BYTE_HEADER_OFFSET)
      b4 == byteWriteSize(b3, blockSize, block)
      b5 == byteWriteNext(b4, BYTE_HEADER_OFFSET, block)
  IN  byteWritePrev(b5, BYTE_HEADER_OFFSET, block)

bytePrepare(buffer) == IF byteVerifyHeader(buffer) THEN buffer ELSE byteWriteInitialHeader(buffer)

\* The loop of findFreeBlock from block on.
RECURSIVE byteFindFreeBlockFrom(_, _, _)
byteFindFreeBlockFrom(buffer, block, numberOfBytes) ==
  IF block > BYTE_HEADER_OFFSET
  THEN IF byteReadSize(buffer, block) >= numberOfBytes THEN block
       ELSE byteFindFreeBlockFrom(buffer, byteReadNext(buffer, block), numberOfBytes)
  ELSE 0

byteFindFreeBlock(buffer, numberOfBytes) ==
  byteFindFreeBlockFrom(buffer, readInt32(buffer, BYTE_HEADER_OFFSET + BYTE_NEXT_OFFSET), numberOfBytes)

\* The walk of insert to the first block of at least blockSize.
RECURSIVE byteInsertWalk(_, _, _, _)
byteInsertWalk(buffer, prev, next, blockSize) ==
  IF next > BYTE_HEADER_OFFSET /\ byteReadSize(buffer, next) < blockSize
  THEN byteInsertWalk(buffer, next, byteReadNext(buffer, next), blockSize)
  ELSE [prev |-> prev, next |-> next]

\* insert: the walk starts from the word at NEXT_OFFSET, not at
\* HEADER_OFFSET + NEXT_OFFSET.
byteInsert(buffer, block, blockSize) ==
  LET w == byteInsertWalk(buffer, BYTE_HEADER_OFFSET, readInt32(buffer, BYTE_NEXT_OFFSET), blockSize)
      b1 == byteWriteSize(buffer, blockSize, block)
      b2 == byteWriteNext(b1, w.next, block)
      b3 == byteWritePrev(b2, w.prev, block)
      b4 == byteWriteNext(b3, block, w.prev)
  IN  byteWritePrev(b4, block, w.next)

byteRemove(buffer, block, blockSize) ==
  LET next == byteReadNext(buffer, block)
      prev == byteReadPrev(buffer, block)
      b1 == byteWriteNext(buffer, next, prev)
      b2 == byteWritePrev(b1, prev, next)
  IN  byteWriteSize(b2, -blockSize, block)

byteSplit(buffer, block, numberOfBytes) ==
  LET blockSize == byteReadSize(buffer, block)
      next == byteReadNext(buffer, block)
      prev == byteReadPrev(buffer, block)
      b1 == byteWriteNext(buffer, next, prev)
      b2 == byteWritePrev(b1, prev, next)
      b3 == byteWriteSize(b2, -numberOfBytes, block)
      second == block + numberOfBytes + BYTE_POINTER_OVERHEAD
      secondSize == blockSize - (second - block)
  IN  byteInsert(b3, second, secondSize)

byteGetFreeBlockBefore(buffer, block) ==
  IF block <= BYTE_FIRST_BLOCK THEN 0
  ELSE LET beforeSize == readInt32(buffer, block - BYTE_POINTER_OVERHEAD)
       IN  IF beforeSize < BYTE_POINTER_OVERHEAD THEN 0
           ELSE block - (BYTE_POINTER_OVERHEAD + beforeSize)

\* getFreeBlockAfter reads the word behind the block's foot tag; for the last
\* block of the buffer that word is outside the buffer.
byteReadsOutside(buffer, block) ==
  block + byteReadSize(buffer, block) + BYTE_POINTER_OVERHEAD - BYTE_POINTER_SIZE >= BufferLength(buffer)

byteGetFreeBlockAfter(buffer, block) ==
  LET blockSize == byteReadSize(buffer, block)
      next == block + blockSize + BYTE_POINTER_OVERHEAD
      nextSize == readInt32(buffer, next - BYTE_POINTER_SIZE)
  IN  IF nextSize < BYTE_POINTER_OVERHEAD THEN 0 ELSE next

byteInsertBefore(buffer, trailing, block) ==
  LET b1 == byteRemove(buffer, trailing, byteReadSize(buffer, trailing))
      blockSize == byteReadSize(b1, block)
      trailingSize == byteReadSize(b1, trailing)
      size == blockSize + trailingSize + BYTE_POINTER_OVERHEAD
      b2 == writeInt32(b1, size, block - BYTE_POINTER_SIZE)
      b3 == writeInt32(b2, size, trailing + trailingSize)
  IN  [buffer |-> byteInsert(b3, block, byteReadSize(b3, block)), ret |-> blockSize]

byteInsertMiddle(buffer, preceding, block, trailing) ==
  LET blockSize == byteReadSize(buffer, block)
      trailingSize == byteReadSize(buffer, trailing)
      size == (trailing - preceding) + trailingSize
      b1 == byteRemove(buffer, preceding, byteReadSize(buffer, preceding))
      b2 == byteRemove(b1, trailing, byteReadSize(b1, trailing))
      b3 == writeInt32(b2, size, preceding - BYTE_POINTER_SIZE)
      b4 == writeInt32(b3, size, trailing + trailingSize)
  IN  [buffer |-> byteInsert(b4, preceding, size), ret |-> blockSize]

byteInsertAfter(buffer, preceding, block) ==
  LET b1 == byteRemove(buffer, preceding, byteReadSize(buffer, preceding))
      blockSize == byteReadSize(b1, block)
      size == (block - preceding) + blockSize
      b2 == writeInt32(b1, size, preceding - BYTE_POINTER_SIZE)
      b3 == writeInt32(b2, size, block + blockSize)
  IN  [buffer |-> byteInsert(b3, preceding, byteReadSize(b3, preceding)), ret |-> blockSize]

\* alloc(buffer, numberOfBytes): the buffer after it and the value returned.
byteAlloc(buffer, numberOfBytes) ==
  LET block == byteFindFreeBlock(buffer, numberOfBytes)
  IN  IF block <= BYTE_HEADER_OFFSET THEN [buffer |-> buffer, ret |-> 0, err |-> ""]
      ELSE IF byteReadSize(buffer, block) - numberOfBytes >= BYTE_MIN_FREEABLE_SIZE
      THEN [buffer |-> byteSplit(buffer, block, numberOfBytes), ret |-> block, err |-> ""]
      ELSE [buffer |-> byteRemove(buffer, block, byteReadSize(buffer, block)), ret |-> block, err |-> ""]

\* free(buffer, block).
byteFree(buffer, block) ==
  LET preceding == byteGetFreeBlockBefore(buffer, block)
      trailing == byteGetFreeBlockAfter(buffer, block)
      o == IF preceding # 0
           THEN IF trailing # 0
                THEN byteInsertMiddle(buffer, preceding, block, trailing)
                ELSE byteInsertAfter(buffer, preceding, block)
           ELSE IF trailing # 0
           THEN byteInsertBefore(buffer, trailing, block)
           ELSE [buffer |-> byteInsert(buffer, block, byteReadSize(buffer, block)),
                 ret |-> byteReadSize(buffer, block)]
  IN  IF block < BYTE_FIRST_BLOCK THEN [buffer |-> buffer, ret |-> 0, err |-> ""]
      ELSE IF byteReadsOutside(buffer, block)
      THEN [buffer |-> buffer, ret |-> 0, err |-> "read outside the buffer"]
      ELSE [buffer |-> o.buffer, ret |-> o.ret, err |-> ""]

\* The blocks inspect of the variant walks, by their head tags.
RECURSIVE byteBlocksFrom(_, _)
byteBlocksFrom(buffer, pointer) ==
  IF pointer < BufferLength(buffer) - BYTE_POINTER_SIZE /\ byteReadSize(buffer, pointer) >= BYTE_POINTER_OVERHEAD
  THEN <<pointer>> \o byteBlocksFrom(buffer, pointer + byteReadSize(buffer, pointer) + BYTE_POINTER_OVERHEAD)
  ELSE <<>>

\* The blocks inspect reports as free.
ByteFreeBlocks ==
  {block \in Range(byteBlocksFrom(int32Array, BYTE_FIRST_BLOCK)) :
     readInt32(int32Array, block - BYTE_POINTER_SIZE) >= 0}

\* The blocks met by following next pointers from block, at most fuel of them.
RECURSIVE byteChainFrom(_, _, _)
byteChainFrom(buffer, block, fuel) ==
  IF block <= BYTE_HEADER_OFFSET \/ fuel = 0 THEN {}
  ELSE {block} \cup byteChainFrom(buffer, byteReadNext(buffer, block), fuel - 1)

\* The blocks findFreeBlock can reach.
ByteReachable ==
  byteChainFrom(int32Array, readInt32(int32Array, BYTE_HEADER_OFFSET + BYTE_NEXT_OFFSET), ByteWords)

\* A buffer of zeros, as Buffer allocates it, with the header written.
InitByte ==
  /\ int32Array = bytePrepare([i \in 0..(ByteWords - 1) |-> 0])
  /\ UPDATES = FreshUpdates
  /\ outstanding = {}
  /\ secondInstance = NoSecond
  /\ last = [op |-> "new", arg |-> ByteWords * BYTE_POINTER_SIZE, ret |-> 0, err |-> ""]

\* Calls go on while no call has read outside the buffer and the list holds
\* every free block.
ByteUsable ==
  /\ last.err = ""
  /\ ByteFreeBlocks \subseteq ByteReachable

\* alloc is also called once after a free that left a free block out of the list.
ByteAlloc ==
  /\ ByteUsable \/ (last.op = "free" /\ last.err = "")
  /\ \E n \in ByteAllocSizes :
       \E o \in {byteAlloc(int32Array, n)} :
         /\ int32Array' = o.buffer
         /\ outstanding' = IF o.ret # 0 THEN outstanding \cup {o.ret} ELSE outstanding
         /\ last' = [op |-> "alloc", arg |-> n, ret |-> o.ret, err |-> o.err]
         /\ UNCHANGED <<UPDATES, secondInstance>>

ByteFree ==
  /\ ByteUsable
  /\ \E addr \in outstanding :
       \E o \in {byteFree(int32Array, addr)} :
         /\ int32Array' = o.buffer
         /\ outstanding' = IF o.err = "" THEN outstanding \ {addr} ELSE outstanding
         /\ last' = [op |-> "free", arg |-> addr, ret |-> o.ret, err |-> o.err]
         /\ UNCHANGED <<UPDATES, secondInstance>>

NextByte == ByteAlloc \/ ByteFree

ByteSpec == InitByte /\ [][NextByte]_vars

\* C39: in the byte-addressed variant, after any alloc calls and frees of
\* outstanding addresses on a prepared buffer, every free block can be
\* reached from the header along next pointers, and an alloc(n) that
\* returned 0 left no free block of at least n bytes.
ByteFreeBlocksReachable ==
  /\ ByteFreeBlocks \subseteq ByteReachable
  /\ (last.op = "alloc" /\ last.ret = 0) =>
       \A block \in ByteFreeBlocks : byteReadSize(int32Array, block) < last.arg

\* C39 failure reached: alloc(n) has returned 0 while a free block of at
\* least n bytes lies in the buffer, because an earlier free left that
\* block out of the list.
ByteAllocMissesFreeBlock ==
  /\ last.op = "alloc"
  /\ last.ret = 0
  /\ \E block \in ByteFreeBlocks :
       /\ byteReadSize(int32Array, block) >= last.arg
       /\ block \notin ByteReachable

====
